---- MODULE Spec2Model ----
(***************************************************************************)
(* Model of the mcp-zenodo tool registry / dispatcher                      *)
(* (src/server/tools/registry.py, src/server/main.py) and of the           *)
(* compare_records and get_related_records tools (src/server/server.py).   *)
(***************************************************************************)
EXTENDS Integers, Sequences, FiniteSets, TLC

(***************************************************************************)
(* Bounds                                                                  *)
(***************************************************************************)
\* number of @tool registrations in one behaviour
MaxRegs == 3

(***************************************************************************)
(* Values shared by all parts of the model                                 *)
(***************************************************************************)
\* Python's None
None == "None"

\* an exception object: its class, its message (fragments of an f-string)
\* and its __cause__
Exc(type, msg) == [type |-> type, msg |-> msg, cause |-> None]

\* how a call ends: a returned value or a raised exception
Return(v) == [kind |-> "return", value |-> v, exc |-> Exc(None, <<>>)]
Raise(e) == [kind |-> "raise", value |-> None, exc |-> e]
NoOutcome == [kind |-> "none", value |-> None, exc |-> Exc(None, <<>>)]

(***************************************************************************)
(* Tool registry: src/server/tools/registry.py                             *)
(***************************************************************************)
VARIABLES
    registry,    \* _TOOL_REGISTRY: a dict, kept as its items in insertion order
    regLog,      \* history: the registrations made so far, in call order
    op,          \* the operation that produced the current state
    req,         \* name and arguments of the last lookup / dispatch / register
    calls,       \* handler invocations made by the last dispatch
    handlerOut,  \* how the handler invoked by the last dispatch ended
    out,         \* how the last operation ended for its caller
    response,    \* HTTP response of the last POST /mcp/tools/call
    fetches,     \* upstream requests made by the last tool call, in order
    pc,          \* where the running tool call stands ("idle": none is running)
    frame,       \* local variables of the running tool call
    cache_dir,   \* the files of _cache_dir on disk: a dict from path to content
    _api_cache,  \* _api_cache: a dict from cache key to (timestamp, result)
    clock,       \* time.time(), in ticks of 1 / TicksPerSecond seconds
    inflight     \* calls of a cached tool that await the underlying tool

regVars == <<registry, regLog, op, req, calls, handlerOut, out, response>>

\* names a tool may be registered under ("" is the empty name)
RegNames == {"", "search", "get_metadata"}
\* names a caller may ask for
CallNames == RegNames \cup {"nonexistent_tool"}

\* the keyword arguments a caller may send
NoArgs == [k \in {} |-> ""]
ArgMaps == {NoArgs, [query |-> "climate"],
            [record_ids |-> "1,2", compare_fields |-> "title"]}

\* the decorated functions: description and parameter schema given to @tool
\* (the schema is kept as the set of its property names) and the function
ToolDefs ==
    { [description |-> "Search for records in Zenodo",
       parameters  |-> {"query", "max_results", "sort"},
       function    |-> "search_records"],
      [description |-> "Compares metadata of multiple Zenodo records",
       parameters  |-> {"record_ids", "compare_fields"},
       function    |-> "compare_records"] }

\* the "required" list of the schema given to @tool with a function
SchemaRequired(f) ==
    CASE f = "search_records" -> {"query"}
      [] f = "compare_records" -> {"record_ids"}

\* parameter names of the decorated functions, and those without a default
FuncParams(f) ==
    CASE f = "search_records" -> {"query", "max_results", "sort"}
      [] f = "compare_records" -> {"request"}

FuncRequired(f) ==
    CASE f = "search_records" -> {"query"}
      [] f = "compare_records" -> {"request"}

\* what the body of a tool function may do once it runs: return a result, or
\* let an upstream failure escape (the Zenodo client raises ValueError on
\* HTTP 401/403/>=400, aiohttp raises ClientError on network failures)
Results == {"result_a", "result_b"}
BodyOutcomes ==
    {Return(r) : r \in Results}
    \cup {Raise(Exc("ValueError", <<"Zenodo API error: ", "500">>)),
          Raise(Exc("ClientError", <<"Cannot connect to host">>))}

---------------------------------------------------------------------------
\* dict helpers: a dict is the sequence of its [key, val] items

DictKeys(d) == {d[i].key : i \in 1..Len(d)}

DictHas(d, k) == \E i \in 1..Len(d) : d[i].key = k

\* d.get(k): the value stored under k, absent when there is none
DictGet(d, k, absent) ==
    IF DictHas(d, k)
    THEN d[CHOOSE i \in 1..Len(d) : d[i].key = k].val
    ELSE absent

\* a dict whose assignment keeps the value already stored under a key
DictSet_KeepsFirst(d, k, v) ==
    IF DictHas(d, k) THEN d ELSE Append(d, [key |-> k, val |-> v])

\* d[k] = v: replaces the value in place for a key already present (the key
\* keeps its position), appends a new item otherwise
DictSet(d, k, v) ==
    IF DictHas(d, k)
    THEN [i \in 1..Len(d) |-> IF d[i].key = k THEN [key |-> k, val |-> v] ELSE d[i]]
    ELSE Append(d, [key |-> k, val |-> v])

\* list(d.values())
DictValues(d) == [i \in 1..Len(d) |-> d[i].val]

---------------------------------------------------------------------------
\* a decorator that refuses the empty name
tool_RejectsEmptyName(reg, name, description, parameters, func) ==
    IF name = ""
    THEN reg
    ELSE DictSet(reg, name,
                 [name |-> name, description |-> description,
                  parameters |-> parameters, function |-> func])

\* tool(name, description, parameters)(func): the registry after the decorator
\* ran.  The stored "function" is the wrapper, which only forwards to func.
tool(reg, name, description, parameters, func) ==
    DictSet(reg, name,
            [name |-> name, description |-> description,
             parameters |-> parameters, function |-> func])

get_tool_registry(reg) == reg

\* the None that get_tool returns for an unknown name, in the shape of an entry
NoTool == [name |-> None, description |-> None, parameters |-> {}, function |-> None]

get_tool(reg, name) == DictGet(reg, name, NoTool)

\* an export that lists the most recently inserted tool first
get_openai_tool_specs_Reversed(reg) ==
    LET vals == DictValues(reg)
        n == Len(vals)
    IN [i \in 1..n |->
          [name |-> vals[n + 1 - i].name, description |-> vals[n + 1 - i].description,
           parameters |-> vals[n + 1 - i].parameters]]

get_openai_tool_specs(reg) ==
    LET vals == DictValues(get_tool_registry(reg))
    IN [i \in 1..Len(vals) |->
          [name |-> vals[i].name, description |-> vals[i].description,
           parameters |-> vals[i].parameters]]

\* wrapper(**kwargs) -> await func(**kwargs): Python binds the keyword
\* arguments to func's parameters and raises TypeError before the body runs
\* when a name is unknown or a required parameter is missing
BindsTo(f, kwargs) ==
    /\ DOMAIN kwargs \subseteq FuncParams(f)
    /\ FuncRequired(f) \subseteq DOMAIN kwargs

wrapper(f, kwargs, body) ==
    IF BindsTo(f, kwargs)
    THEN body
    ELSE Raise(Exc("TypeError", <<f, "() got unexpected or missing arguments">>))

\* a dispatcher that falls back to the first registered tool for an unknown name
dispatch_tool_call_FallsBack(reg, name, arguments, body) ==
    LET t == IF DictHas(reg, name) \/ Len(reg) = 0 THEN get_tool(reg, name) ELSE reg[1].val
    IN IF t # NoTool
       THEN LET h == wrapper(t.function, arguments, body)
            IN [calls |-> <<[function |-> t.function, kwargs |-> arguments]>>,
                handler |-> h,
                out |-> h]
       ELSE [calls |-> <<>>,
             handler |-> NoOutcome,
             out |-> Raise(Exc("ValueError", <<"Tool ", name, " not found">>))]

\* a dispatcher that awaits the handler but drops what it returned
dispatch_tool_call_DropsResult(reg, name, arguments, body) ==
    LET t == get_tool(reg, name)
    IN IF t # NoTool
       THEN LET h == wrapper(t.function, arguments, body)
            IN [calls |-> <<[function |-> t.function, kwargs |-> arguments]>>,
                handler |-> h,
                out |-> IF h.kind = "return" THEN Return(None) ELSE h]
       ELSE [calls |-> <<>>,
             handler |-> NoOutcome,
             out |-> Raise(Exc("ValueError", <<"Tool ", name, " not found">>))]

\* dispatch_tool_call(name, arguments); body is what the tool body does if it
\* is reached.  The result names the handler calls made, how the handler
\* ended and how dispatch ends.
dispatch_tool_call(reg, name, arguments, body) ==
    LET t == get_tool(reg, name)
    IN IF t # NoTool
       THEN LET h == wrapper(t.function, arguments, body)
            IN [calls |-> <<[function |-> t.function, kwargs |-> arguments]>>,
                handler |-> h,
                out |-> h]
       ELSE [calls |-> <<>>,
             handler |-> NoOutcome,
             out |-> Raise(Exc("ValueError", <<"Tool ", name, " not found">>))]

\* POST /mcp/tools/call: 200 with the result, 400 on ValueError, 500 on any
\* other exception; detail is str(e)
NoResponse == [status |-> 0, result |-> None, detail |-> <<>>]

call_tool(d) ==
    IF d.out.kind = "return"
    THEN [status |-> 200, result |-> d.out.value, detail |-> <<>>]
    ELSE IF d.out.exc.type = "ValueError"
         THEN [status |-> 400, result |-> None, detail |-> d.out.exc.msg]
         ELSE [status |-> 500, result |-> None, detail |-> d.out.exc.msg]

---------------------------------------------------------------------------
NoReq == [name |-> None, arguments |-> NoArgs]

\* no tool call is running
NoFrame == [k \in {} |-> None]

RegInit ==
    /\ registry = <<>>
    /\ regLog = <<>>
    /\ op = "init"
    /\ req = NoReq
    /\ calls = <<>>
    /\ handlerOut = NoOutcome
    /\ out = NoOutcome
    /\ response = NoResponse
    /\ fetches = <<>>
    /\ pc = "idle"
    /\ frame = NoFrame
    /\ cache_dir = <<>>
    /\ _api_cache = <<>>
    /\ clock = 0
    /\ inflight = <<>>

\* a tool module is imported: @tool(name, ...) decorates a function
Register ==
    /\ Len(regLog) < MaxRegs
    /\ \E name \in RegNames, t \in ToolDefs :
         /\ registry' = tool(registry, name, t.description, t.parameters, t.function)
         /\ regLog' = Append(regLog, [name |-> name, description |-> t.description,
                                      parameters |-> t.parameters,
                                      function |-> t.function])
         /\ req' = [name |-> name, arguments |-> NoArgs]
    /\ op' = "register"
    /\ out' = Return(None)
    /\ calls' = <<>>
    /\ handlerOut' = NoOutcome
    /\ response' = NoResponse
    /\ UNCHANGED <<_api_cache, clock, inflight, cache_dir, fetches, pc, frame>>

\* get_tool(name)
Lookup ==
    /\ \E name \in CallNames :
         /\ req' = [name |-> name, arguments |-> NoArgs]
         /\ out' = Return(get_tool(registry, name))
    /\ op' = "lookup"
    /\ calls' = <<>>
    /\ handlerOut' = NoOutcome
    /\ response' = NoResponse
    /\ UNCHANGED <<_api_cache, clock, inflight, cache_dir, registry, regLog, fetches, pc, frame>>

\* get_openai_tool_specs(), also served by GET /mcp/tools/openai-schema
ExportSchemas ==
    /\ out' = Return(get_openai_tool_specs(registry))
    /\ op' = "export"
    /\ req' = NoReq
    /\ calls' = <<>>
    /\ handlerOut' = NoOutcome
    /\ response' = NoResponse
    /\ UNCHANGED <<_api_cache, clock, inflight, cache_dir, registry, regLog, fetches, pc, frame>>

\* POST /mcp/tools/call {name, arguments}: the only caller of
\* dispatch_tool_call; out is how dispatch_tool_call ended
CallTool ==
    /\ \E name \in CallNames, arguments \in ArgMaps, body \in BodyOutcomes :
         LET d == dispatch_tool_call(registry, name, arguments, body)
         IN /\ req' = [name |-> name, arguments |-> arguments]
            /\ calls' = d.calls
            /\ handlerOut' = d.handler
            /\ out' = d.out
            /\ response' = call_tool(d)
    /\ op' = "call_tool"
    /\ UNCHANGED <<_api_cache, clock, inflight, cache_dir, registry, regLog, fetches, pc, frame>>

vars == <<regVars, fetches, pc, frame, cache_dir, _api_cache, clock, inflight>>

Init == RegInit

Next == Register \/ Lookup \/ ExportSchemas \/ CallTool

Spec == Init /\ [][Next]_vars

(***************************************************************************)
(* Numbers and strings of the tools                                        *)
(***************************************************************************)
\* hits one upstream search may return
MaxHits == 2

\* A similarity score is a Python float; the model keeps the exact quotient
\* n/d in lowest terms.
RECURSIVE GCD(_, _)
GCD(a, b) == IF b = 0 THEN a ELSE GCD(b, a % b)

Frac(n, d) == LET g == GCD(n, d) IN [n |-> n \div g, d |-> d \div g]

FAdd(a, b) == Frac(a.n * b.d + b.n * a.d, a.d * b.d)
FMul(a, b) == Frac(a.n * b.n, a.d * b.d)
FGe(a, b) == a.n * b.d >= b.n * a.d
FLt(a, b) == a.n * b.d < b.n * a.d

\* A string is the sequence of its characters.
lower(s) ==
    [i \in 1..Len(s) |->
       CASE s[i] = "A" -> "a" [] s[i] = "B" -> "b" [] s[i] = "C" -> "c"
         [] s[i] = "K" -> "k" [] s[i] = "X" -> "x" [] OTHER -> s[i]]

\* str.split(): the maximal runs of non-blank characters
RECURSIVE SplitFrom(_, _, _)
SplitFrom(s, i, word) ==
    IF i > Len(s)
    THEN IF word = <<>> THEN <<>> ELSE <<word>>
    ELSE IF s[i] = " "
         THEN (IF word = <<>> THEN <<>> ELSE <<word>>) \o SplitFrom(s, i + 1, <<>>)
         ELSE SplitFrom(s, i + 1, Append(word, s[i]))

split(s) == SplitFrom(s, 1, <<>>)

\* set(list)
ToSet(l) == {l[i] : i \in 1..Len(l)}

\* dict.get(key, default) on a JSON object (a function on its keys)
Get(obj, key, default) == IF key \in DOMAIN obj THEN obj[key] ELSE default

EmptyDict == [k \in {} |-> <<>>]

\* a record id as Python sees it: the JSON string "1" and the JSON number 1
\* are different values
StrId(digits) == [type |-> "str", digits |-> digits]
IntId(digits) == [type |-> "int", digits |-> digits]

(***************************************************************************)
(* get_related_records: src/server/server.py                               *)
(***************************************************************************)
\* the record documents the upstream holds, by the digits of their id
Title_ab == <<"a", " ", "b">>
Title_Ac == <<"A", " ", "c">>

TargetDoc ==
    [id |-> IntId("1"),
     metadata |-> [title |-> Title_ab,
                   keywords |-> << <<"k">> >>,
                   creators |-> << [name |-> <<"X">>] >>]]

\* a record without metadata: it has no search terms
EmptyDoc == [id |-> IntId("5"), metadata |-> EmptyDict]

UpstreamRecord(digits) == IF digits = "1" THEN TargetDoc ELSE EmptyDoc

\* the documents a search may return
Candidates ==
    << TargetDoc,
       [id |-> IntId("2"), metadata |-> [title |-> Title_ab]],
       [id |-> IntId("3"), metadata |-> [title |-> Title_Ac]],
       [id |-> IntId("4"), metadata |-> [keywords |-> << <<"K">> >>]] >>

\* the hit lists of one search response: up to MaxHits distinct candidates
RECURSIVE HitLists(_)
HitLists(n) ==
    IF n = 0 THEN {<<>>}
    ELSE LET shorter == HitLists(n - 1)
         IN shorter \cup
            {Append(l, c) : l \in {x \in shorter : Len(x) = n - 1},
                            c \in 1..Len(Candidates)}

DistinctHits(l) == \A i, j \in 1..Len(l) : i # j => l[i] # l[j]

\* how one upstream request ends: a JSON document, or a raised ValueError
UpOk(doc) == [ok |-> TRUE, doc |-> doc]
UpFail == [ok |-> FALSE, doc |-> EmptyDict]

SearchOutcomes ==
    {UpOk([hits |-> [hits |-> [i \in 1..Len(l) |-> Candidates[l[i]]]]]) :
        l \in {x \in HitLists(MaxHits) : DistinctHits(x)}}
    \cup {UpFail}

UpstreamError == Exc("ValueError", <<"Zenodo API error: ", "500">>)

\* the arguments of get_related_records; record_id is annotated str
RelatedIds == {StrId("1"), StrId("5")}
MaxResultsArgs == {1, 2}
DefaultThreshold == Frac(3, 10)
ThresholdArgs == {DefaultThreshold, Frac(2, 5)}

---------------------------------------------------------------------------
_extract_search_terms(record) ==
    LET metadata == Get(record, "metadata", EmptyDict)
        title == IF "title" \in DOMAIN metadata THEN <<metadata["title"]>> ELSE <<>>
        keywords == IF "keywords" \in DOMAIN metadata THEN metadata["keywords"] ELSE <<>>
        creators == IF "creators" \in DOMAIN metadata THEN metadata["creators"] ELSE <<>>
        RECURSIVE Names(_)
        Names(i) == IF i > Len(creators) THEN <<>>
                    ELSE IF "name" \in DOMAIN creators[i]
                         THEN <<creators[i]["name"]>> \o Names(i + 1)
                         ELSE Names(i + 1)
    IN title \o keywords \o Names(1)

\* a word overlap that divides by the words of both strings together
_calculate_string_similarity_PerWord(str1, str2) ==
    IF str1 = <<>> \/ str2 = <<>>
    THEN Frac(0, 1)
    ELSE LET words1 == ToSet(split(str1))
             words2 == ToSet(split(str2))
             intersection == Cardinality(words1 \cap words2)
             total == Cardinality(words1) + Cardinality(words2)
         IN IF total = 0 THEN Frac(0, 1) ELSE Frac(intersection, total)

\* word overlap of two strings
_calculate_string_similarity(str1, str2) ==
    IF str1 = <<>> \/ str2 = <<>>
    THEN Frac(0, 1)
    ELSE LET words1 == ToSet(split(str1))
             words2 == ToSet(split(str2))
             intersection == Cardinality(words1 \cap words2)
             union == Cardinality(words1 \cup words2)
         IN IF union = 0 THEN Frac(0, 1) ELSE Frac(intersection, union)

\* Jaccard similarity of two sets
_calculate_set_similarity(set1, set2) ==
    IF set1 = {} \/ set2 = {}
    THEN Frac(0, 1)
    ELSE LET intersection == Cardinality(set1 \cap set2)
             union == Cardinality(set1 \cup set2)
         IN IF union = 0 THEN Frac(0, 1) ELSE Frac(intersection, union)

\* a title weight of one half
TitleWeight_Half == Frac(5, 10)

\* the weights of the composite similarity
TitleWeight == Frac(4, 10)
KeywordWeight == Frac(3, 10)
CreatorWeight == Frac(3, 10)

_calculate_similarity(record1, record2) ==
    LET metadata1 == Get(record1, "metadata", EmptyDict)
        metadata2 == Get(record2, "metadata", EmptyDict)
        title1 == lower(Get(metadata1, "title", <<>>))
        title2 == lower(Get(metadata2, "title", <<>>))
        title_similarity == _calculate_string_similarity(title1, title2)
        keywords1 == {lower(k) : k \in ToSet(Get(metadata1, "keywords", <<>>))}
        keywords2 == {lower(k) : k \in ToSet(Get(metadata2, "keywords", <<>>))}
        keyword_similarity == _calculate_set_similarity(keywords1, keywords2)
        creators1 == {lower(Get(c, "name", <<>>)) : c \in ToSet(Get(metadata1, "creators", <<>>))}
        creators2 == {lower(Get(c, "name", <<>>)) : c \in ToSet(Get(metadata2, "creators", <<>>))}
        creator_similarity == _calculate_set_similarity(creators1, creators2)
    IN FAdd(FAdd(FMul(TitleWeight, title_similarity),
                 FMul(KeywordWeight, keyword_similarity)),
            FMul(CreatorWeight, creator_similarity))

\* a filter that drops a candidate scoring exactly the threshold
PassesThreshold_Strict(similarity, similarity_threshold) ==
    FLt(similarity_threshold, similarity)

\* similarity >= similarity_threshold
PassesThreshold(similarity, similarity_threshold) ==
    FGe(similarity, similarity_threshold)

\* a hit is kept when it is not the target itself and passes the threshold
KeepsHit(record, record_id, result, similarity_threshold) ==
    /\ result["id"] # record_id
    /\ PassesThreshold(_calculate_similarity(record, result), similarity_threshold)

RelatedEntry(record, result) ==
    [record_id |-> result["id"],
     title |-> Get(Get(result, "metadata", EmptyDict), "title", <<>>),
     similarity |-> _calculate_similarity(record, result)]

\* list.sort(key=similarity, reverse=True): stable, descending
RECURSIVE SortBySimilarity(_)
SortBySimilarity(l) ==
    IF Len(l) <= 1 THEN l
    ELSE LET sorted == SortBySimilarity(SubSeq(l, 1, Len(l) - 1))
             x == l[Len(l)]
             before == Cardinality({i \in 1..Len(sorted) : FGe(sorted[i].similarity, x.similarity)})
         IN SubSeq(sorted, 1, before) \o <<x>> \o SubSeq(sorted, before + 1, Len(sorted))

\* l[:n]
Slice(l, n) ==
    IF n >= 0
    THEN SubSeq(l, 1, IF n < Len(l) THEN n ELSE Len(l))
    ELSE SubSeq(l, 1, IF Len(l) + n > 0 THEN Len(l) + n ELSE 0)

SearchRequest(term, max_results) ==
    [endpoint |-> <<"records">>, q |-> term, size |-> max_results]
RecordRequest(record_id) ==
    [endpoint |-> <<"records/", record_id.digits>>, q |-> <<>>, size |-> 0]

\* what the loop body does with the hits of one search response: the entries
\* appended to related_records
RelatedHits(record, record_id, hits, similarity_threshold) ==
    LET Keep(result) == KeepsHit(record, record_id, result, similarity_threshold)
        kept == SelectSeq(hits, Keep)
    IN [k \in 1..Len(kept) |-> RelatedEntry(record, kept[k])]

\* an end that limits the list in order of arrival, without sorting it
RelatedResult_Unsorted(record_id, max_results, related) ==
    LET related_records == Slice(related, max_results)
    IN [record_id |-> record_id,
        related_records |-> related_records,
        total_count |-> Len(related_records)]

\* the end of get_related_records: sort, limit, build the result
RelatedResult(record_id, max_results, related) ==
    LET related_records == Slice(SortBySimilarity(related), max_results)
    IN [record_id |-> record_id,
        related_records |-> related_records,
        total_count |-> Len(related_records)]

\* get_related_records(record_id, max_results, similarity_threshold) is called
RelatedStart ==
    /\ pc = "idle"
    /\ \E record_id \in RelatedIds, max_results \in MaxResultsArgs,
          similarity_threshold \in ThresholdArgs :
         req' = [name |-> "get_related_records",
                 arguments |-> [record_id |-> record_id,
                                max_results |-> max_results,
                                similarity_threshold |-> similarity_threshold]]
    /\ op' = "get_related_records"
    /\ pc' = "related_record"
    /\ frame' = NoFrame
    /\ fetches' = <<>>
    /\ out' = NoOutcome
    /\ UNCHANGED <<_api_cache, clock, inflight, cache_dir, registry, regLog, calls, handlerOut, response>>

\* the upstream answers the request for the target record; an exception of
\* _make_request is not caught and ends the call.  A record without search
\* terms skips the loop.
RelatedRecordReply ==
    /\ pc = "related_record"
    /\ \E found \in BOOLEAN :
         LET a == req.arguments
             fetched == IF found THEN UpOk(UpstreamRecord(a.record_id.digits)) ELSE UpFail
             search_terms == _extract_search_terms(fetched.doc)
         IN /\ fetches' = Append(fetches, [request |-> RecordRequest(a.record_id),
                                           reply |-> fetched])
            /\ IF ~found
               THEN /\ out' = Raise(UpstreamError)
                    /\ pc' = "idle"
                    /\ frame' = NoFrame
               ELSE IF search_terms = <<>>
               THEN /\ out' = Return(RelatedResult(a.record_id, a.max_results, <<>>))
                    /\ pc' = "idle"
                    /\ frame' = NoFrame
               ELSE /\ out' = NoOutcome
                    /\ pc' = "related_search"
                    /\ frame' = [record |-> fetched.doc, search_terms |-> search_terms,
                                 i |-> 1, related_records |-> <<>>]
    /\ UNCHANGED <<_api_cache, clock, inflight, cache_dir, registry, regLog, op, req, calls, handlerOut, response>>

\* the upstream answers the search for the i-th term; an exception of
\* _make_request is not caught and ends the call.  After the last term the
\* result is built.
RelatedSearchReply ==
    /\ pc = "related_search"
    /\ \E reply \in SearchOutcomes :
         LET a == req.arguments
             hits == Get(Get(reply.doc, "hits", EmptyDict), "hits", <<>>)
             related == frame.related_records
                          \o RelatedHits(frame.record, a.record_id, hits,
                                         a.similarity_threshold)
         IN /\ fetches' = Append(fetches,
                                 [request |-> SearchRequest(frame.search_terms[frame.i],
                                                            a.max_results),
                                  reply |-> reply])
            /\ IF ~reply.ok
               THEN /\ out' = Raise(UpstreamError)
                    /\ pc' = "idle"
                    /\ frame' = NoFrame
               ELSE IF frame.i = Len(frame.search_terms)
               THEN /\ out' = Return(RelatedResult(a.record_id, a.max_results, related))
                    /\ pc' = "idle"
                    /\ frame' = NoFrame
               ELSE /\ out' = NoOutcome
                    /\ pc' = "related_search"
                    /\ frame' = [frame EXCEPT !.i = frame.i + 1,
                                              !.related_records = related]
    /\ UNCHANGED <<_api_cache, clock, inflight, cache_dir, registry, regLog, op, req, calls, handlerOut, response>>

NextRelated == RelatedStart \/ RelatedRecordReply \/ RelatedSearchReply

SpecRelated == Init /\ [][NextRelated]_vars

(***************************************************************************)
(* compare_records: src/server/server.py                                   *)
(***************************************************************************)
\* record ids one compare request may name
MaxIds == 3

\* a field value as Python sees it: a str or a list of str
PyStr(chars) == [type |-> "str", v |-> chars]
PyList(items) == [type |-> "list", v |-> items]

\* the record documents the upstream serves to compare_records, by id: each
\* carries its metadata both as the nested "metadata" object and as top-level
\* members
CompareIds == {<<"1">>, <<"2">>, <<"3">>, <<"4">>}

CompareMetadata(record_id) ==
    CASE record_id = <<"1">> ->
           [title |-> PyStr(<<"a", "b">>), keywords |-> PyList(<< <<"k">> >>),
            creators |-> PyList(<< [name |-> <<"X">>] >>)]
      [] record_id = <<"2">> ->
           [title |-> PyStr(<<"A", "b">>), keywords |-> PyList(<< <<"c">> >>)]
      [] record_id = <<"4">> ->
           [title |-> PyStr(<<"a", "b">>), keywords |-> PyList(<< <<"c">> >>)]
      [] OTHER ->
           [title |-> PyStr(<<"a", "b", "c">>), keywords |-> PyList(<< <<"K">>, <<"c">> >>),
            creators |-> PyList(<< [name |-> <<"x">>], [k \in {} |-> <<>>] >>)]

CompareDoc(record_id) ==
    CompareMetadata(record_id) @@ [metadata |-> CompareMetadata(record_id)]

\* the sequences over S of length at most n
RECURSIVE SeqsUpTo(_, _)
SeqsUpTo(S, n) ==
    IF n = 0 THEN {<<>>}
    ELSE LET shorter == SeqsUpTo(S, n - 1)
         IN shorter \cup {Append(l, x) : l \in {y \in shorter : Len(y) = n - 1}, x \in S}

\* the compare_fields a request may carry (None: not given)
DefaultCompareFields == <<"title", "authors", "topics", "publication_date">>
CompareFieldArgs == {<<>>, <<"title", "keywords">>, <<"creators", "title">>}

InsufficientRecords ==
    Exc("ValueError", <<"At least two valid records are required for comparison">>)

---------------------------------------------------------------------------
\* str(value): a str is itself, a list prints as ['a', 'b']
RECURSIVE ReprItems(_, _)
ReprItems(items, i) ==
    IF i > Len(items) THEN <<>>
    ELSE (IF i > 1 THEN <<",", " ">> ELSE <<>>)
           \o <<"'">> \o items[i] \o <<"'">> \o ReprItems(items, i + 1)

str(value) ==
    IF value.type = "str" THEN value.v
    ELSE <<"[">> \o ReprItems(value.v, 1) \o <<"]">>

\* difflib.SequenceMatcher(None, a, b): positions are counted from 0 as in
\* Python, a[i:i+k] is a[i+1..i+k] here.  No element is junk and strings
\* shorter than 200 characters have no popular elements.
find_longest_match(a, b, alo, ahi, blo, bhi) ==
    LET blocks == {m \in (alo..(ahi - 1)) \X (blo..(bhi - 1)) \X (1..(ahi - alo)) :
                     /\ m[1] + m[3] <= ahi
                     /\ m[2] + m[3] <= bhi
                     /\ \A t \in 1..m[3] : a[m[1] + t] = b[m[2] + t]}
    IN IF blocks = {}
       THEN <<alo, blo, 0>>
       ELSE CHOOSE m \in blocks :
              \A o \in blocks :
                 \/ m[3] > o[3]
                 \/ m[3] = o[3] /\ m[1] < o[1]
                 \/ m[3] = o[3] /\ m[1] = o[1] /\ m[2] <= o[2]

\* the total size of get_matching_blocks() within a[alo:ahi], b[blo:bhi]
RECURSIVE MatchingSize(_, _, _, _, _, _)
MatchingSize(a, b, alo, ahi, blo, bhi) ==
    LET m == find_longest_match(a, b, alo, ahi, blo, bhi)
        i == m[1]
        j == m[2]
        k == m[3]
    IN IF k = 0 THEN 0
       ELSE k + (IF alo < i /\ blo < j THEN MatchingSize(a, b, alo, i, blo, j) ELSE 0)
              + (IF i + k < ahi /\ j + k < bhi
                 THEN MatchingSize(a, b, i + k, ahi, j + k, bhi) ELSE 0)

\* SequenceMatcher(None, a, b).ratio()
SequenceMatcherRatio(a, b) ==
    LET length == Len(a) + Len(b)
    IN IF length = 0 THEN Frac(1, 1)
       ELSE Frac(2 * MatchingSize(a, b, 0, Len(a), 0, Len(b)), length)

extract_field_value(metadata, field) ==
    IF field = "creators"
    THEN LET creators == Get(metadata, "creators", PyList(<<>>)).v
         IN PyList([i \in 1..Len(creators) |-> Get(creators[i], "name", <<>>)])
    ELSE IF field = "keywords"
    THEN Get(metadata, "keywords", PyList(<<>>))
    ELSE Get(metadata, field, PyStr(<<>>))

calculate_similarity(value1, value2) ==
    IF value1.type = "list" /\ value2.type = "list"
    THEN LET set1 == {lower(x) : x \in ToSet(value1.v)}
             set2 == {lower(x) : x \in ToSet(value2.v)}
             intersection == Cardinality(set1 \cap set2)
             union == Cardinality(set1 \cup set2)
         IN IF union > 0 THEN Frac(intersection, union) ELSE Frac(0, 1)
    ELSE SequenceMatcherRatio(lower(str(value1)), lower(str(value2)))

\* np.mean of a non-empty list of scores
RECURSIVE FSum(_)
FSum(l) == IF l = <<>> THEN Frac(0, 1) ELSE FAdd(l[1], FSum(Tail(l)))

\* the sum of the scores, not divided by their number
mean_Sum(l) == FSum(l)

mean(l) == LET total == FSum(l) IN Frac(total.n, total.d * Len(l))

\* a threshold of 0.9
DifferenceThreshold_Higher == Frac(9, 10)

\* pairs scoring below this are reported as differences: 0.8
DifferenceThreshold == Frac(8, 10)

\* what the except clause does on a failed fetch: drop everything fetched
AfterFetch_DropsAll(records_metadata, record_id, reply) ==
    IF reply.ok
    THEN DictSet(records_metadata, record_id, reply.doc)
    ELSE <<>>

\* one pass of the fetch loop: the try stores the document, the except
\* clause prints and goes on to the next id
AfterFetch(records_metadata, record_id, reply) ==
    IF reply.ok
    THEN DictSet(records_metadata, record_id, reply.doc)
    ELSE records_metadata

\* a check that lets a single record through
TooFewRecords_One(records_metadata) == Len(records_metadata) < 1

\* len(records_metadata) < 2
TooFewRecords(records_metadata) == Len(records_metadata) < 2

\* key = f"{record_id1}_{record_id2}"
pair_key(record_id1, record_id2) == record_id1 \o <<"_">> \o record_id2

\* the body of the loop over compare_fields for one field
CompareField(records_metadata, field) ==
    LET field_values ==
          [i \in 1..Len(records_metadata) |->
             [key |-> records_metadata[i].key,
              val |-> extract_field_value(records_metadata[i].val, field)]]
        n == Len(field_values)
        \* the pairs (i, j), i < j, in the order the two loops visit them
        RECURSIVE Pairs(_, _)
        Pairs(i, j) == IF i > n THEN <<>>
                       ELSE IF j > n THEN Pairs(i + 1, i + 2)
                       ELSE <<[i |-> i, j |-> j]>> \o Pairs(i, j + 1)
        pairs == Pairs(1, 2)
        Similarity(p) == calculate_similarity(field_values[p.i].val, field_values[p.j].val)
        Key(p) == pair_key(field_values[p.i].key, field_values[p.j].key)
        RECURSIVE Scores(_)
        Scores(k) == IF k = 0 THEN <<>>
                     ELSE DictSet(Scores(k - 1), Key(pairs[k]), Similarity(pairs[k]))
        similarity_scores == Scores(Len(pairs))
        Differs(p) == FLt(Similarity(p), DifferenceThreshold)
        differing == SelectSeq(pairs, Differs)
    IN [similarity_scores |-> similarity_scores,
        average_similarity |->
           IF similarity_scores # <<>> THEN mean(DictValues(similarity_scores))
           ELSE Frac(0, 1),
        differences |->
           [k \in 1..Len(differing) |->
              [record_id1 |-> field_values[differing[k].i].key,
               record_id2 |-> field_values[differing[k].j].key,
               value1 |-> str(field_values[differing[k].i].val),
               value2 |-> str(field_values[differing[k].j].val)]]]

\* compare_records after the fetch loop
CompareResult(record_ids, compare_fields, records_metadata) ==
    IF TooFewRecords(records_metadata)
    THEN Raise(InsufficientRecords)
    ELSE LET RECURSIVE Fields(_)
             Fields(k) ==
                IF k = 0 THEN [field_comparisons |-> <<>>, differences |-> <<>>]
                ELSE LET done == Fields(k - 1)
                         c == CompareField(records_metadata, compare_fields[k])
                     IN [field_comparisons |->
                            DictSet(done.field_comparisons, compare_fields[k],
                                    [similarity_scores |-> c.similarity_scores,
                                     average_similarity |-> c.average_similarity]),
                         differences |->
                            DictSet(done.differences, compare_fields[k], c.differences)]
             all == Fields(Len(compare_fields))
             averages == DictValues(all.field_comparisons)
         IN Return([record_ids |-> record_ids,
                    field_comparisons |-> all.field_comparisons,
                    overall_similarity |->
                       mean([k \in 1..Len(averages) |-> averages[k].average_similarity]),
                    differences |-> all.differences])

\* compare_records(request) is called; with no record id the loop is skipped
CompareStart ==
    /\ pc = "idle"
    /\ \E record_ids \in SeqsUpTo(CompareIds, MaxIds), fields \in CompareFieldArgs :
         LET compare_fields == IF fields # <<>> THEN fields ELSE DefaultCompareFields
         IN /\ req' = [name |-> "compare_records",
                       arguments |-> [record_ids |-> record_ids,
                                      compare_fields |-> fields]]
            /\ IF record_ids = <<>>
               THEN /\ out' = CompareResult(record_ids, compare_fields, <<>>)
                    /\ pc' = "idle"
                    /\ frame' = NoFrame
               ELSE /\ out' = NoOutcome
                    /\ pc' = "compare_fetch"
                    /\ frame' = [compare_fields |-> compare_fields, i |-> 1,
                                 records_metadata |-> <<>>]
    /\ op' = "compare_records"
    /\ fetches' = <<>>
    /\ UNCHANGED <<_api_cache, clock, inflight, cache_dir, registry, regLog, calls, handlerOut, response>>

\* the upstream answers the request for the i-th record id; after the last
\* id the records are compared
CompareFetchReply ==
    /\ pc = "compare_fetch"
    /\ \E found \in BOOLEAN :
         LET record_ids == req.arguments.record_ids
             record_id == record_ids[frame.i]
             reply == IF found THEN UpOk(CompareDoc(record_id)) ELSE UpFail
             records_metadata == AfterFetch(frame.records_metadata, record_id, reply)
         IN /\ fetches' = Append(fetches,
                                 [request |-> [endpoint |-> <<"records/">> \o record_id,
                                               q |-> <<>>, size |-> 0],
                                  reply |-> reply])
            /\ IF frame.i = Len(record_ids)
               THEN /\ out' = CompareResult(record_ids, frame.compare_fields,
                                            records_metadata)
                    /\ pc' = "idle"
                    /\ frame' = NoFrame
               ELSE /\ out' = NoOutcome
                    /\ pc' = "compare_fetch"
                    /\ frame' = [frame EXCEPT !.i = frame.i + 1,
                                              !.records_metadata = records_metadata]
    /\ UNCHANGED <<_api_cache, clock, inflight, cache_dir, registry, regLog, op, req, calls, handlerOut, response>>

NextCompare == CompareStart \/ CompareFetchReply

SpecCompare == Init /\ [][NextCompare]_vars

(***************************************************************************)
(* get_citation: src/server/server.py and                                  *)
(* src/mcp-zenodo-fastapi/server/tools/citation_tool.py                    *)
(***************************************************************************)
\* the record documents the upstream serves to get_citation, by id
CitationIds == {<<"1">>, <<"2">>, <<"3">>, <<"4">>}

CitationDoc(record_id) ==
    CASE record_id = <<"1">> ->
           [id |-> IntId("1"),
            metadata |-> [title |-> <<"a", "b">>,
                          creators |-> << [name |-> <<"X">>], [name |-> <<"a">>] >>,
                          publication_date |-> <<"2", "0", "2", "0", "-", "0", "1">>,
                          doi |-> <<"10.5281/zenodo.1">>]]
      [] record_id = <<"2">> ->
           [id |-> IntId("2"), metadata |-> [title |-> <<"c">>]]
      [] record_id = <<"3">> ->
           [id |-> IntId("3"),
            metadata |-> [creators |-> << [affiliation |-> <<"u">>] >>,
                          publication_date |-> <<"2", "0", "2", "1">>]]
      [] OTHER -> [id |-> IntId("4")]

\* the format arguments of get_citation
Bibtex == <<"b", "i", "b", "t", "e", "x">>
Apa == <<"a", "p", "a">>
CitationFormats ==
    {Bibtex, <<"B", "i", "b", "t", "e", "x">>, Apa, <<"A", "p", "a">>,
     <<"m", "l", "a">>, <<>>}

\* ValueError(f"Unsupported citation format: {format}")
UnsupportedFormat(format) ==
    Exc("ValueError", <<"Unsupported citation format: ">> \o format)

\* sep.join(c.get("name", "") for c in creators)
RECURSIVE JoinNames(_, _, _)
JoinNames(sep, creators, i) ==
    IF i > Len(creators) THEN <<>>
    ELSE (IF i > 1 THEN sep ELSE <<>>)
           \o Get(creators[i], "name", <<>>) \o JoinNames(sep, creators, i + 1)

\* s.split(sep)[0]: the characters before the first sep
RECURSIVE BeforeFirst(_, _)
BeforeFirst(s, sep) ==
    IF s = <<>> \/ Head(s) = sep THEN <<>>
    ELSE <<Head(s)>> \o BeforeFirst(Tail(s), sep)

\* a CitationResponse without its query_time; error |-> <<>> is error=None
NoError == <<>>
CitationResponse(record_id, citation, format, error) ==
    [record_id |-> record_id, citation |-> citation, format |-> format,
     error |-> error]

\* the body of get_citation once the upstream has answered: it returns the
\* response or raises
CitationBody(record_id, format, reply) ==
    IF ~reply.ok
    THEN Raise(UpstreamError)
    ELSE LET metadata == Get(reply.doc, "metadata", EmptyDict)
             title == Get(metadata, "title", <<>>)
             creators == Get(metadata, "creators", <<>>)
             pub_date == Get(metadata, "publication_date", <<>>)
             doi == Get(metadata, "doi", <<>>)
             year == IF pub_date # <<>> THEN BeforeFirst(pub_date, "-") ELSE <<>>
         IN IF lower(format) = Bibtex
            THEN Return(CitationResponse(record_id,
                   <<"@misc{">> \o record_id
                     \o <<",\n  author = {">> \o JoinNames(<<" and ">>, creators, 1)
                     \o <<"},\n  title = {">> \o title
                     \o <<"},\n  year = {">> \o year
                     \o <<"},\n  publisher = {Zenodo},\n  doi = {">> \o doi
                     \o <<"}\n}">>,
                   format, NoError))
            ELSE IF lower(format) = Apa
            THEN Return(CitationResponse(record_id,
                   JoinNames(<<", ">>, creators, 1) \o <<" (">> \o year \o <<"). ">>
                     \o title \o <<". Zenodo. https://doi.org/">> \o doi,
                   format, NoError))
            ELSE Raise(UnsupportedFormat(format))

\* server.py wraps the body in try/except Exception and answers a response
\* that carries str(e)
CaughtCitation(record_id, format, outcome) ==
    IF outcome.kind = "raise"
    THEN Return(CitationResponse(record_id, <<>>, format, outcome.exc.msg))
    ELSE outcome

\* get_citation(record_id, format) is called, in citation_tool.py or in
\* server.py
CitationStart ==
    /\ pc = "idle"
    /\ \E record_id \in CitationIds, format \in CitationFormats :
         req' = [name |-> "get_citation",
                 arguments |-> [record_id |-> record_id, format |-> format]]
    /\ op' \in {"citation_tool.get_citation", "server.get_citation"}
    /\ pc' = "citation_record"
    /\ frame' = NoFrame
    /\ fetches' = <<>>
    /\ out' = NoOutcome
    /\ UNCHANGED <<_api_cache, clock, inflight, cache_dir, registry, regLog, calls, handlerOut, response>>

\* the upstream answers the request for the record; the call ends
CitationReply(caught) ==
    /\ pc = "citation_record"
    /\ \E found \in BOOLEAN :
         LET a == req.arguments
             reply == IF found THEN UpOk(CitationDoc(a.record_id)) ELSE UpFail
             outcome == CitationBody(a.record_id, a.format, reply)
         IN /\ fetches' = Append(fetches,
                                 [request |-> [endpoint |-> <<"records/">> \o a.record_id,
                                               q |-> <<>>, size |-> 0],
                                  reply |-> reply])
            /\ out' = IF caught
                      THEN CaughtCitation(a.record_id, a.format, outcome)
                      ELSE outcome
    /\ pc' = "idle"
    /\ UNCHANGED <<_api_cache, clock, inflight, cache_dir, registry, regLog, op, req, calls, handlerOut, response, frame>>

\* citation_tool.py: an exception of the body leaves get_citation
CitationToolReply ==
    /\ op = "citation_tool.get_citation"
    /\ CitationReply(FALSE)

\* server.py: an exception of the body is caught
ServerCitationReply ==
    /\ op = "server.get_citation"
    /\ CitationReply(TRUE)

NextCitation == CitationStart \/ CitationToolReply \/ ServerCitationReply

SpecCitation == Init /\ [][NextCitation]_vars

(***************************************************************************)
(* download_file: src/server/server.py                                     *)
(***************************************************************************)
\* the arguments of download_file
DownloadIds == {<<"1">>, <<"2">>}
FileNames == {<<"a">>, <<"b">>}

\* the record documents the upstream serves to download_file, by id
DownloadDoc(record_id) ==
    IF record_id = <<"1">>
    THEN [id |-> IntId("1"),
          files |-> << [filename |-> <<"a">>,
                        links |-> [download |-> <<"https://zenodo.org/files/1/a">>]],
                       [filename |-> <<"b">>, links |-> EmptyDict] >>]
    ELSE [id |-> IntId("2"),
          files |-> << [filename |-> <<"a">>,
                        links |-> [download |-> <<"https://zenodo.org/files/2/a">>]] >>]

\* what the download URL answers: a status and the bytes of the file
DownloadReplies ==
    {[status |-> 200, body |-> <<"x">>], [status |-> 200, body |-> <<"y", "z">>],
     [status |-> 404, body |-> <<>>]}

\* os.path.join(_cache_dir, f"{record_id}_{file_name}")
cache_path(record_id, file_name) ==
    <<"~/.zenodo_cache/">> \o record_id \o <<"_">> \o file_name

\* a DownloadResponse without its query_time; file_path |-> <<>> is
\* file_path=None and error |-> <<>> is error=None
DownloadResponse(file_path, record_id, file_name, file_size, error) ==
    [file_path |-> file_path, record_id |-> record_id, file_name |-> file_name,
     file_size |-> file_size, error |-> error]

\* the response built from the file at cache_path
CachedFile(dir, record_id, file_name) ==
    LET path == cache_path(record_id, file_name)
    IN DownloadResponse(path, record_id, file_name, Len(DictGet(dir, path, <<>>)),
                        NoError)

\* the first entry of files with the requested filename, None if there is none
FileInfo(files, file_name) ==
    LET matching == {i \in 1..Len(files) : Get(files[i], "filename", <<>>) = file_name}
    IN IF matching = {} THEN EmptyDict
       ELSE files[CHOOSE i \in matching : \A k \in matching : i <= k]

\* download_file(record_id, file_name, force_download) is called; a file
\* present at cache_path is answered at once
DownloadStart ==
    /\ pc = "idle"
    /\ \E record_id \in DownloadIds, file_name \in FileNames, force_download \in BOOLEAN :
         /\ req' = [name |-> "download_file",
                    arguments |-> [record_id |-> record_id, file_name |-> file_name,
                                   force_download |-> force_download]]
         /\ IF DictHas(cache_dir, cache_path(record_id, file_name))
            THEN /\ out' = Return(CachedFile(cache_dir, record_id, file_name))
                 /\ pc' = "idle"
            ELSE /\ out' = NoOutcome
                 /\ pc' = "download_record"
    /\ op' = "download_file"
    /\ frame' = NoFrame
    /\ fetches' = <<>>
    /\ UNCHANGED <<_api_cache, clock, inflight, cache_dir, registry, regLog, calls, handlerOut, response>>

\* the upstream answers the request for the record; an exception of
\* _make_request is not caught and ends the call
DownloadRecordReply ==
    /\ pc = "download_record"
    /\ \E found \in BOOLEAN :
         LET a == req.arguments
             reply == IF found THEN UpOk(DownloadDoc(a.record_id)) ELSE UpFail
             files == Get(reply.doc, "files", <<>>)
             file_info == FileInfo(files, a.file_name)
             download_url == Get(Get(file_info, "links", EmptyDict), "download", <<>>)
         IN /\ fetches' = Append(fetches,
                                 [request |-> [endpoint |-> <<"records/">> \o a.record_id,
                                               q |-> <<>>, size |-> 0],
                                  reply |-> reply])
            /\ IF ~found
               THEN /\ out' = Raise(UpstreamError)
                    /\ pc' = "idle"
                    /\ frame' = NoFrame
               ELSE IF file_info = EmptyDict
               THEN /\ out' = Return(DownloadResponse(<<>>, a.record_id, a.file_name, None,
                                       <<"File '">> \o a.file_name
                                         \o <<"' not found in record ">> \o a.record_id))
                    /\ pc' = "idle"
                    /\ frame' = NoFrame
               ELSE IF download_url = <<>>
               THEN /\ out' = Return(DownloadResponse(<<>>, a.record_id, a.file_name, None,
                                       <<"Download URL not found for file '">>
                                         \o a.file_name \o <<"'">>))
                    /\ pc' = "idle"
                    /\ frame' = NoFrame
               ELSE /\ out' = NoOutcome
                    /\ pc' = "download_content"
                    /\ frame' = [download_url |-> download_url]
    /\ UNCHANGED <<_api_cache, clock, inflight, cache_dir, registry, regLog, op, req, calls, handlerOut, response>>

\* the download URL answers; on status 200 the bytes are written to
\* cache_path
DownloadContentReply ==
    /\ pc = "download_content"
    /\ \E reply \in DownloadReplies :
         LET a == req.arguments
             path == cache_path(a.record_id, a.file_name)
             written == DictSet(cache_dir, path, reply.body)
         IN /\ fetches' = Append(fetches,
                                 [request |-> [endpoint |-> frame.download_url,
                                               q |-> <<>>, size |-> 0],
                                  reply |-> [ok |-> reply.status = 200,
                                             doc |-> [body |-> reply.body]]])
            /\ IF reply.status # 200
               THEN /\ out' = Return(DownloadResponse(<<>>, a.record_id, a.file_name, None,
                                       <<"Failed to download file: HTTP ", "404">>))
                    /\ cache_dir' = cache_dir
               ELSE /\ out' = Return(CachedFile(written, a.record_id, a.file_name))
                    /\ cache_dir' = written
    /\ pc' = "idle"
    /\ frame' = NoFrame
    /\ UNCHANGED <<_api_cache, clock, inflight, registry, regLog, op, req, calls,
                   handlerOut, response>>

NextDownload == DownloadStart \/ DownloadRecordReply \/ DownloadContentReply

SpecDownload == Init /\ [][NextDownload]_vars

(***************************************************************************)
(* The similarity helpers and the field accessors, applied to given values  *)
(* src/mcp-zenodo-fastapi/server/tools/compare_tool.py, src/server/server.py *)
(***************************************************************************)
\* the longest string and the longest list the helpers are applied to
MaxStrLen == 3
MaxListLen == 2

Alphabet == {"a", "B", " "}
Kitten == <<"k", "i", "t", "t", "e", "n">>
Sitting == <<"s", "i", "t", "t", "i", "n", "g">>
Strings == SeqsUpTo(Alphabet, MaxStrLen) \cup {Kitten, Sitting}

ListItems == {<<"a">>, <<"B">>, <<"b">>}
Lists == SeqsUpTo(ListItems, MaxListLen)

\* the values a similarity helper may be given: str and list objects
StrValues == {PyStr(s) : s \in Strings}
ListValues == {PyList(l) : l \in Lists}

\* the records the composite similarity may be given
SimilarityRecords == ToSet(Candidates) \cup {EmptyDoc}

\* a dict member of a JSON document
PyDict(members) == [type |-> "dict", v |-> members]

\* the records and the field names the accessors may be given
LicensedDoc ==
    [id |-> IntId("6"),
     metadata |-> [license |-> PyDict([id |-> PyStr(<<"m", "i", "t">>)]),
                   description |-> PyStr(<<"a">>)],
     license |-> PyDict([id |-> PyStr(<<"m", "i", "t">>)]),
     description |-> PyStr(<<"a">>)]

AccessorRecords ==
    {CompareDoc(record_id) : record_id \in CompareIds} \cup {LicensedDoc, EmptyDict}

FieldNames ==
    {"title", "authors", "creators", "topics", "keywords", "publication_date",
     "description", "license", "doi"}

\* the arguments of one application of a helper
HelperArgs(kind, A, B) == {[kind |-> kind, a |-> x, b |-> y] : x \in A, y \in B}

\* the largest element instead of the least
Min_Largest(S) == CHOOSE x \in S : \A y \in S : x >= y

Min(S) == CHOOSE x \in S : \A y \in S : x <= y
Max(S) == CHOOSE x \in S : \A y \in S : x >= y

---------------------------------------------------------------------------
\* the inner loop over s2, from the pass that appends to the given
\* current_row; it ends when current_row has len(s2) + 1 entries.  Python
\* counts from 0: previous_row[j] there is previous_row[j + 1] here.
RECURSIVE inner_loop(_, _, _, _)
inner_loop(previous_row, current_row, c1, s2) ==
    IF Len(current_row) = Len(s2) + 1
    THEN current_row
    ELSE LET j == Len(current_row)
             insertions == previous_row[j + 1] + 1
             deletions == current_row[j] + 1
             substitutions == previous_row[j] + (IF c1 # s2[j] THEN 1 ELSE 0)
         IN inner_loop(previous_row,
                       Append(current_row, Min({insertions, deletions, substitutions})),
                       c1, s2)

\* the outer loop over s1, from its i-th pass on
RECURSIVE outer_loop(_, _, _, _)
outer_loop(previous_row, s1, s2, i) ==
    IF i > Len(s1)
    THEN previous_row
    ELSE outer_loop(inner_loop(previous_row, <<i>>, s1[i], s2), s1, s2, i + 1)

RECURSIVE _levenshtein_distance(_, _)
_levenshtein_distance(s1, s2) ==
    IF Len(s1) < Len(s2)
    THEN _levenshtein_distance(s2, s1)
    ELSE IF Len(s2) = 0
    THEN Len(s1)
    ELSE LET previous_row == outer_loop([j \in 1..(Len(s2) + 1) |-> j - 1], s1, s2, 1)
         IN previous_row[Len(previous_row)]

\* compare_tool.py's string similarity: 1 - distance / max_length
compare_tool_calculate_string_similarity(str1, str2) ==
    IF str1 = <<>> \/ str2 = <<>>
    THEN Frac(0, 1)
    ELSE LET s1 == lower(str1)
             s2 == lower(str2)
             distance == _levenshtein_distance(s1, s2)
             max_length == Max({Len(s1), Len(s2)})
         IN IF max_length = 0
            THEN Frac(1, 1)
            ELSE Frac(max_length - distance, max_length)

\* a list similarity that measures the overlap against the first list only
_calculate_list_similarity_OfFirst(list1, list2) ==
    IF list1 = <<>> \/ list2 = <<>>
    THEN Frac(0, 1)
    ELSE LET set1 == {lower(item) : item \in ToSet(list1)}
             set2 == {lower(item) : item \in ToSet(list2)}
         IN Frac(Cardinality(set1 \cap set2), Cardinality(set1))

_calculate_list_similarity(list1, list2) ==
    IF list1 = <<>> \/ list2 = <<>>
    THEN Frac(0, 1)
    ELSE LET set1 == {lower(item) : item \in ToSet(list1)}
             set2 == {lower(item) : item \in ToSet(list2)}
             intersection == Cardinality(set1 \cap set2)
             union == Cardinality(set1 \cup set2)
         IN IF union = 0 THEN Frac(0, 1) ELSE Frac(intersection, union)

\* compare_tool.py's similarity of two field values
compare_tool_calculate_similarity(value1, value2) ==
    IF value1.type = "str" /\ value2.type = "str"
    THEN compare_tool_calculate_string_similarity(value1.v, value2.v)
    ELSE IF value1.type = "list" /\ value2.type = "list"
    THEN _calculate_list_similarity(value1.v, value2.v)
    ELSE compare_tool_calculate_string_similarity(str(value1), str(value2))

\* compare_tool.py's accessor on the nested metadata of a record
_extract_field_value(record, field) ==
    LET metadata == Get(record, "metadata", EmptyDict)
    IN CASE field = "title" -> Get(metadata, "title", PyStr(<<>>))
         [] field = "authors" ->
              LET creators == Get(metadata, "creators", PyList(<<>>)).v
              IN PyList([i \in 1..Len(creators) |-> Get(creators[i], "name", <<>>)])
         [] field = "topics" -> Get(metadata, "keywords", PyList(<<>>))
         [] field = "publication_date" -> Get(metadata, "publication_date", PyStr(<<>>))
         [] field = "description" -> Get(metadata, "description", PyStr(<<>>))
         [] field = "license" ->
              Get(Get(metadata, "license", PyDict(EmptyDict)).v, "id", PyStr(<<>>))
         [] OTHER -> Get(metadata, field, PyStr(<<>>))

---------------------------------------------------------------------------
\* the state before a helper is applied: its arguments are given
InitSimilarity ==
    /\ registry = <<>>
    /\ regLog = <<>>
    /\ op = "init"
    /\ \/ \E args \in HelperArgs("values", StrValues, StrValues) :
             req = [name |-> None, arguments |-> args]
       \/ \E args \in HelperArgs("values", ListValues, ListValues) :
             req = [name |-> None, arguments |-> args]
       \/ \E args \in HelperArgs("values", StrValues, ListValues) :
             req = [name |-> None, arguments |-> args]
       \/ \E args \in HelperArgs("values", ListValues, StrValues) :
             req = [name |-> None, arguments |-> args]
       \/ \E args \in HelperArgs("records", SimilarityRecords, SimilarityRecords) :
             req = [name |-> None, arguments |-> args]
       \/ \E args \in HelperArgs("field", AccessorRecords, FieldNames) :
             req = [name |-> None, arguments |-> args]
    /\ calls = <<>>
    /\ handlerOut = NoOutcome
    /\ out = NoOutcome
    /\ response = NoResponse
    /\ fetches = <<>>
    /\ pc = "idle"
    /\ frame = NoFrame
    /\ cache_dir = <<>>
    /\ _api_cache = <<>>
    /\ clock = 0
    /\ inflight = <<>>

\* a helper is applied to the given arguments and returns
Applied(name, value) ==
    /\ op' = name
    /\ out' = Return(value)
    /\ UNCHANGED <<_api_cache, clock, inflight, cache_dir, registry, regLog, req, calls, handlerOut, response, fetches, pc, frame>>

BothStr == /\ req.arguments.kind = "values"
           /\ req.arguments.a.type = "str"
           /\ req.arguments.b.type = "str"
BothList == /\ req.arguments.kind = "values"
            /\ req.arguments.a.type = "list"
            /\ req.arguments.b.type = "list"

ApplyLevenshtein ==
    /\ BothStr
    /\ Applied("_levenshtein_distance",
               _levenshtein_distance(req.arguments.a.v, req.arguments.b.v))

ApplyEditSimilarity ==
    /\ BothStr
    /\ Applied("compare_tool._calculate_string_similarity",
               compare_tool_calculate_string_similarity(req.arguments.a.v,
                                                        req.arguments.b.v))

ApplyWordSimilarity ==
    /\ BothStr
    /\ Applied("_calculate_string_similarity",
               _calculate_string_similarity(req.arguments.a.v, req.arguments.b.v))

\* the caller builds the two sets from lists
ApplySetSimilarity ==
    /\ BothList
    /\ Applied("_calculate_set_similarity",
               _calculate_set_similarity(ToSet(req.arguments.a.v),
                                         ToSet(req.arguments.b.v)))

ApplyListSimilarity ==
    /\ BothList
    /\ Applied("_calculate_list_similarity",
               _calculate_list_similarity(req.arguments.a.v, req.arguments.b.v))

ApplyGenericSimilarity ==
    /\ req.arguments.kind = "values"
    /\ Applied("compare_tool._calculate_similarity",
               compare_tool_calculate_similarity(req.arguments.a, req.arguments.b))

ApplyFieldSimilarity ==
    /\ req.arguments.kind = "values"
    /\ Applied("calculate_similarity",
               calculate_similarity(req.arguments.a, req.arguments.b))

ApplyRecordSimilarity ==
    /\ req.arguments.kind = "records"
    /\ Applied("_calculate_similarity",
               _calculate_similarity(req.arguments.a, req.arguments.b))

ApplyNestedAccessor ==
    /\ req.arguments.kind = "field"
    /\ Applied("_extract_field_value",
               _extract_field_value(req.arguments.a, req.arguments.b))

ApplyAccessor ==
    /\ req.arguments.kind = "field"
    /\ Applied("extract_field_value",
               extract_field_value(req.arguments.a, req.arguments.b))

NextSimilarity ==
    \/ ApplyLevenshtein
    \/ ApplyEditSimilarity
    \/ ApplyWordSimilarity
    \/ ApplySetSimilarity
    \/ ApplyListSimilarity
    \/ ApplyGenericSimilarity
    \/ ApplyFieldSimilarity
    \/ ApplyRecordSimilarity
    \/ ApplyNestedAccessor
    \/ ApplyAccessor

SpecSimilarity == InitSimilarity /\ [][NextSimilarity]_vars

(***************************************************************************)
(* The TTL cache of tool results: src/mcp_sdk_core/server/server.py        *)
(***************************************************************************)
\* the clock stops at MaxClock ticks; at most MaxInflight calls await the
\* underlying tool at the same time
MaxClock == 3
MaxInflight == 2

\* the clock is read in ticks of half a second
TicksPerSecond == 2

\* _api_cache_ttl = 1, in seconds
_api_cache_ttl == 1

\* the calls made of the decorated get_citation: arguments are passed by
\* keyword, in the order the caller gave them, or by position
Kw(k, v) == [key |-> k, val |-> v]
CachedCalls ==
    {[args |-> << <<"1">> >>, kwargs |-> <<>>],
     [args |-> <<>>, kwargs |-> << Kw("record_id", <<"1">>), Kw("format", Bibtex) >>],
     [args |-> <<>>, kwargs |-> << Kw("record_id", <<"1">>),
                                   Kw("format", <<"m", "l", "a">>) >>]}

\* the parameters of get_citation(record_id, format="bibtex") as a call binds
\* them
BoundRecordId(call) ==
    IF Len(call.args) >= 1 THEN call.args[1]
    ELSE DictGet(call.kwargs, "record_id", <<>>)
BoundFormat(call) ==
    IF Len(call.args) >= 2 THEN call.args[2]
    ELSE DictGet(call.kwargs, "format", Bibtex)

\* the parameter names of get_citation in the order sorted() puts them
SortedNames == <<"format", "record_id">>

\* sorted(kwargs.items()): the items by ascending key
sorted_items(kwargs) ==
    LET present == SelectSeq(SortedNames, LAMBDA k : DictHas(kwargs, k))
    IN [i \in 1..Len(present) |-> Kw(present[i], DictGet(kwargs, present[i], <<>>))]

\* sep.join(parts)
RECURSIVE Join(_, _)
Join(sep, parts) ==
    IF parts = <<>> THEN <<>>
    ELSE IF Len(parts) = 1 THEN parts[1]
    ELSE parts[1] \o sep \o Join(sep, Tail(parts))

\* cache_key = "|".join([func.__name__] + [str(arg) for arg in args]
\*                      + [f"{k}:{v}" for k, v in sorted(kwargs.items())])
CacheKey(name, args, kwargs) ==
    LET items == sorted_items(kwargs)
    IN Join(<<"|">>,
            <<name>> \o args
              \o [i \in 1..Len(items) |-> <<items[i].key, ":">> \o items[i].val])

\* an entry of _api_cache: the tuple (timestamp, result)
CacheEntry(timestamp, result) == [timestamp |-> timestamp, result |-> result]
NoEntry == CacheEntry(-1, None)

\* the test of the wrapper with <= in place of <
IsFresh_Inclusive(cache, cache_key, now) ==
    /\ DictHas(cache, cache_key)
    /\ now - DictGet(cache, cache_key, NoEntry).timestamp
         <= _api_cache_ttl * TicksPerSecond

\* cache_key in _api_cache and time.time() - timestamp < _api_cache_ttl
IsFresh(cache, cache_key, now) ==
    /\ DictHas(cache, cache_key)
    /\ now - DictGet(cache, cache_key, NoEntry).timestamp
         < _api_cache_ttl * TicksPerSecond

\* the wrapper after func raised and stored the failure like a result
AfterCall_StoresFailure(cache, cache_key, now, outcome) ==
    DictSet(cache, cache_key,
            CacheEntry(now, IF outcome.kind = "return" THEN outcome.value
                            ELSE CitationResponse(<<>>, <<>>, Bibtex,
                                                  outcome.exc.msg)))

\* the wrapper after `await func(*args, **kwargs)`: a result is stored under
\* the key with the time of the store, an exception leaves the wrapper before
\* the store
AfterCall(cache, cache_key, now, outcome) ==
    IF outcome.kind = "return"
    THEN DictSet(cache, cache_key, CacheEntry(now, outcome.value))
    ELSE cache

\* _handle_api_error around the cached get_citation: an exception becomes a
\* CitationResponse that carries str(e)
_handle_api_error(kwargs, outcome) ==
    IF outcome.kind = "raise"
    THEN Return(CitationResponse(DictGet(kwargs, "record_id", <<>>), <<>>,
                                 DictGet(kwargs, "format", Bibtex),
                                 outcome.exc.msg))
    ELSE outcome

\* the locals of a call inside the cache wrapper
CacheFrame(call, now) ==
    [call |-> call,
     cache_key |-> CacheKey(<<"get_citation">>, call.args, call.kwargs),
     started |-> now]

\* l without its i-th element
RemoveAt(l, i) == [j \in 1..(Len(l) - 1) |-> IF j < i THEN l[j] ELSE l[j + 1]]

\* the decorated get_citation is called: the wrapper builds the key and
\* either returns the cached result or awaits the underlying tool
CacheLookup ==
    /\ Len(inflight) < MaxInflight
    /\ \E call \in CachedCalls :
         LET f == CacheFrame(call, clock)
         IN /\ frame' = f
            /\ req' = [name |-> "get_citation", arguments |-> call]
            /\ IF IsFresh(_api_cache, f.cache_key, clock)
               THEN /\ out' = Return(DictGet(_api_cache, f.cache_key, NoEntry).result)
                    /\ inflight' = inflight
               ELSE /\ out' = NoOutcome
                    /\ inflight' = Append(inflight, f)
    /\ op' = "_cache_api_response"
    /\ handlerOut' = NoOutcome
    /\ UNCHANGED <<_api_cache, clock, cache_dir, registry, regLog, calls, response,
                   fetches, pc>>

\* the underlying get_citation of a waiting call ends, after the upstream
\* answered or failed: the wrapper stores a result, _handle_api_error answers
\* for an exception
CachedToolReply ==
    /\ \E i \in 1..Len(inflight), found \in BOOLEAN :
         LET f == inflight[i]
             record_id == BoundRecordId(f.call)
             format == BoundFormat(f.call)
             reply == IF found THEN UpOk(CitationDoc(record_id)) ELSE UpFail
             outcome == CitationBody(record_id, format, reply)
         IN /\ frame' = f
            /\ req' = [name |-> "get_citation", arguments |-> f.call]
            /\ handlerOut' = outcome
            /\ _api_cache' = AfterCall(_api_cache, f.cache_key, clock, outcome)
            /\ out' = _handle_api_error(f.call.kwargs, outcome)
            /\ inflight' = RemoveAt(inflight, i)
    /\ op' = "get_citation"
    /\ UNCHANGED <<clock, cache_dir, registry, regLog, calls, response, fetches, pc>>

\* time passes
Tick ==
    /\ clock < MaxClock
    /\ clock' = clock + 1
    /\ op' = "time"
    /\ UNCHANGED <<_api_cache, inflight, cache_dir, registry, regLog, req, calls,
                   handlerOut, out, response, fetches, pc, frame>>

NextCache == CacheLookup \/ CachedToolReply \/ Tick

SpecCache == Init /\ [][NextCache]_vars

(***************************************************************************)
(* detect_data_type: src/server/server.py                                  *)
(***************************************************************************)
\* the arguments of detect_data_type
DataTypeIds == {<<"1">>, <<"2">>, <<"3">>}

\* the keyword tests, in the order of the if / elif chain
KeywordIndicators ==
    << [data_type |-> "software",
        indicators |-> << <<"s", "o", "f", "t", "w", "a", "r", "e">>,
                          <<"c", "o", "d", "e">>,
                          <<"p", "r", "o", "g", "r", "a", "m">> >>],
       [data_type |-> "dataset",
        indicators |-> << <<"d", "a", "t", "a", "s", "e", "t">>,
                          <<"d", "a", "t", "a">>,
                          <<"m", "e", "a", "s", "u", "r", "e", "m", "e", "n", "t">> >>],
       [data_type |-> "article",
        indicators |-> << <<"a", "r", "t", "i", "c", "l", "e">>,
                          <<"p", "a", "p", "e", "r">>,
                          <<"p", "u", "b", "l", "i", "c", "a", "t", "i", "o", "n">> >>] >>

\* the file extension tests, in the order of the if / elif chain
ExtensionIndicators ==
    << [data_type |-> "software",
        indicators |-> << <<"p", "y">>, <<"j", "s">>,
                          <<"j", "a", "v", "a">>, <<"c", "p", "p">>,
                          <<"c">>, <<"h">>, <<"r">>,
                          <<"m", "a", "t", "l", "a", "b">> >>],
       [data_type |-> "dataset",
        indicators |-> << <<"c", "s", "v">>, <<"t", "s", "v">>,
                          <<"j", "s", "o", "n">>, <<"x", "m", "l">>,
                          <<"h", "d", "f", "5">>, <<"n", "c">>,
                          <<"n", "p", "y">>, <<"n", "p", "z">> >>],
       [data_type |-> "article",
        indicators |-> << <<"p", "d", "f">>, <<"d", "o", "c">>,
                          <<"d", "o", "c", "x">>, <<"t", "e", "x">> >>] >>

\* the keywords and the files a record served by the upstream may carry
\* (has = FALSE: the document has no such key)
KeywordChoices ==
    {[has |-> FALSE, v |-> <<>>],
     [has |-> TRUE, v |-> <<>>],
     [has |-> TRUE, v |-> << <<"C", "o", "d", "e">> >>],
     [has |-> TRUE, v |-> << <<"d", "a", "t", "a">> >>],
     [has |-> TRUE, v |-> << <<"p", "a", "p", "e", "r">> >>],
     [has |-> TRUE, v |-> << <<"p", "a", "p", "e", "r">>, <<"C", "o", "d", "e">> >>],
     [has |-> TRUE, v |-> << <<"x">> >>]}

File(filename) == [filename |-> filename]
FileChoices ==
    {[has |-> FALSE, v |-> <<>>],
     [has |-> TRUE, v |-> <<>>],
     [has |-> TRUE, v |-> << File(<<"a", ".", "p", "y">>) >>],
     [has |-> TRUE, v |-> << File(<<"b", ".", "c", "s", "v">>) >>],
     [has |-> TRUE, v |-> << File(<<"c", ".", "p", "d", "f">>) >>],
     [has |-> TRUE, v |-> << File(<<"c", ".", "p", "d", "f">>), File(<<"a", ".", "C">>) >>],
     [has |-> TRUE, v |-> << File(<<"a", "b">>), [size |-> 1] >>],
     [has |-> TRUE, v |-> << File(<<"b", ".", "t", "a", "r", ".", "g", "z">>) >>]}

\* the document the upstream serves for a choice of keywords and files
DataTypeDoc(keywords, files) ==
    [id |-> IntId("1"),
     metadata |-> IF keywords.has
                  THEN [title |-> <<"a", "b">>, keywords |-> keywords.v]
                  ELSE [title |-> <<"a", "b">>]]
      @@ (IF files.has THEN [files |-> files.v] ELSE EmptyDict)

DataTypeReplies ==
    {UpOk(DataTypeDoc(k, f)) : k \in KeywordChoices, f \in FileChoices}
      \cup {UpFail}

\* sep in s
Contains(s, sep) == \E i \in 1..Len(s) : s[i] = sep

\* s.split(sep)[-1]: the characters after the last sep
AfterLast(s, sep) ==
    IF Contains(s, sep)
    THEN LET last == CHOOSE i \in 1..Len(s) :
                        s[i] = sep /\ \A j \in (i + 1)..Len(s) : s[j] # sep
         IN SubSeq(s, last + 1, Len(s))
    ELSE s

\* the first data type of an if / elif chain one of whose indicators is
\* among the values, "unknown" when no test passes
FirstIndicated(chain, values) ==
    LET passes == {k \in 1..Len(chain) :
                     \E v \in ToSet(values) : v \in ToSet(chain[k].indicators)}
    IN IF passes = {} THEN "unknown"
       ELSE chain[CHOOSE k \in passes : \A m \in passes : k <= m].data_type

\* [f.get("filename", "").split(".")[-1].lower() for f in record["files"]
\*    if "." in f.get("filename", "")]
FileExtensions(files) ==
    LET named == SelectSeq(files, LAMBDA f : Contains(Get(f, "filename", <<>>), "."))
    IN [i \in 1..Len(named) |-> lower(AfterLast(named[i]["filename"], "."))]

UnboundLocal ==
    Exc("UnboundLocalError",
        <<"cannot access local variable 'file_extensions' where it is not associated with a value">>)

\* the body of detect_data_type once the upstream has answered.  The local
\* file_extensions is assigned only inside the fallback branch, which runs
\* when no keyword test passed and the record has "files"; the metadata of
\* the result reads it whenever the record has "files".  file_types is kept
\* as a set: list(set(...)) has no defined order.
DataTypeBody(record_id, reply) ==
    IF ~reply.ok
    THEN Raise(UpstreamError)
    ELSE LET record == reply.doc
             metadata == Get(record, "metadata", EmptyDict)
             by_keyword == IF "keywords" \in DOMAIN metadata
                           THEN FirstIndicated(KeywordIndicators,
                                               [i \in 1..Len(metadata["keywords"]) |->
                                                  lower(metadata["keywords"][i])])
                           ELSE "unknown"
             fallback == by_keyword = "unknown" /\ "files" \in DOMAIN record
             file_extensions == FileExtensions(record["files"])
             by_extension == IF fallback
                             THEN FirstIndicated(ExtensionIndicators, file_extensions)
                             ELSE "unknown"
         IN IF "files" \in DOMAIN record /\ ~fallback
            THEN Raise(UnboundLocal)
            ELSE Return([record_id |-> record_id,
                         data_type |-> IF by_keyword # "unknown" THEN by_keyword
                                       ELSE by_extension,
                         confidence |-> IF by_keyword # "unknown" THEN Frac(8, 10)
                                        ELSE IF by_extension # "unknown" THEN Frac(6, 10)
                                        ELSE Frac(0, 1),
                         metadata |-> [title |-> Get(metadata, "title", <<>>),
                                       description |-> Get(metadata, "description", <<>>),
                                       keywords |-> Get(metadata, "keywords", <<>>),
                                       file_count |-> Len(Get(record, "files", <<>>)),
                                       file_types |-> IF "files" \in DOMAIN record
                                                      THEN ToSet(file_extensions)
                                                      ELSE {}]])

\* detect_data_type(record_id) is called
DataTypeStart ==
    /\ pc = "idle"
    /\ \E record_id \in DataTypeIds :
         req' = [name |-> "detect_data_type", arguments |-> [record_id |-> record_id]]
    /\ op' = "detect_data_type"
    /\ pc' = "data_type_record"
    /\ frame' = NoFrame
    /\ fetches' = <<>>
    /\ out' = NoOutcome
    /\ UNCHANGED <<_api_cache, clock, inflight, cache_dir, registry, regLog, calls,
                   handlerOut, response>>

\* the upstream answers the request for the record; the call ends
DataTypeReply ==
    /\ pc = "data_type_record"
    /\ \E reply \in DataTypeReplies :
         /\ fetches' = <<[request |-> [endpoint |-> <<"records/">> \o req.arguments.record_id,
                                       q |-> <<>>, size |-> 0],
                          reply |-> reply]>>
         /\ out' = DataTypeBody(req.arguments.record_id, reply)
    /\ pc' = "idle"
    /\ UNCHANGED <<_api_cache, clock, inflight, cache_dir, registry, regLog, op, req,
                   calls, handlerOut, response, frame>>

NextDataType == DataTypeStart \/ DataTypeReply

SpecDataType == Init /\ [][NextDataType]_vars

(***************************************************************************)
(* Properties of the registry and the dispatcher                           *)
(***************************************************************************)
\* the names registered so far
LogNames(log) == {log[i].name : i \in 1..Len(log)}

\* the most recent registration made under a name
LastReg(log, name) ==
    log[CHOOSE i \in 1..Len(log) :
          /\ log[i].name = name
          /\ \A j \in (i + 1)..Len(log) : log[j].name # name]

\* the registered names in the order of their first registration
FirstOrder(log) ==
    LET first == {i \in 1..Len(log) : \A j \in 1..(i - 1) : log[j].name # log[i].name}
        RECURSIVE Walk(_)
        Walk(i) == IF i > Len(log) THEN <<>>
                   ELSE IF i \in first THEN <<log[i].name>> \o Walk(i + 1)
                   ELSE Walk(i + 1)
    IN Walk(1)

\* what export_schemas must list after the registrations of log
ExpectedSchemas(log) ==
    LET names == FirstOrder(log)
    IN [i \in 1..Len(names) |->
          [name |-> names[i],
           description |-> LastReg(log, names[i]).description,
           parameters |-> LastReg(log, names[i]).parameters]]

\* C1: a dispatch on a name that is not in the registry fails with the
\* not-found error (ValueError "Tool <name> not found") carrying the requested
\* name, whatever the registry holds and whatever the arguments are; no
\* handler is invoked and the registry is unchanged.
C1_UnknownNameNotFound ==
    [][(op' = "call_tool" /\ req'.name \notin DictKeys(registry))
         => /\ out' = Raise(Exc("ValueError", <<"Tool ", req'.name, " not found">>))
            /\ calls' = <<>>
            /\ handlerOut' = NoOutcome
            /\ registry' = registry]_vars

C1_Witness ==
    /\ op = "call_tool"
    /\ req.name = "nonexistent_tool"
    /\ req.arguments # NoArgs
    /\ Len(registry) >= 2
    /\ out.kind = "raise"

\* C2: for a name present in the registry, dispatch invokes the handler
\* registered under that name exactly once with the arguments as keyword
\* arguments, invokes nothing else, and hands the handler's result (or its
\* exception) to its caller unmodified.
C2_DispatchInvokesRegisteredHandler ==
    [][(op' = "call_tool" /\ req'.name \in DictKeys(registry))
         => /\ calls' = <<[function |-> LastReg(regLog, req'.name).function,
                           kwargs |-> req'.arguments]>>
            /\ handlerOut'.kind \in {"return", "raise"}
            /\ out' = handlerOut'
            /\ handlerOut'.kind = "return" => response'.result = handlerOut'.value]_vars

C2_Witness ==
    /\ op = "call_tool"
    /\ req.name = "search"
    /\ req.arguments = [query |-> "climate"]
    /\ Len(registry) >= 2
    /\ calls = <<[function |-> "search_records", kwargs |-> req.arguments]>>
    /\ out = Return("result_b")

\* C3: export_schemas lists exactly one {name, description, parameters} entry
\* per registered tool, in insertion order (the order in which the names were
\* first registered), and a second export with no registration in between
\* returns the same sequence.
C3_ExportInInsertionOrder ==
    [][op' = "export"
         => /\ out' = Return(ExpectedSchemas(regLog))
            /\ op = "export" => out' = out]_vars

C3_Witness ==
    /\ op = "export"
    /\ Len(regLog) = 2
    /\ regLog[1].name = "search"
    /\ regLog[2].name = "get_metadata"
    /\ Len(out.value) = 2
    /\ out.value[1].name = "search"
    /\ out.value[2].name = "get_metadata"

\* C4: when a name is registered more than once the last registration wins:
\* lookup and dispatch use the description, schema and handler of the most
\* recent registration, and the registry and the exported schemas hold
\* exactly one entry for the name.
C4_LastRegistrationWins ==
    /\ \A n \in RegNames :
         IF n \in LogNames(regLog)
         THEN /\ Cardinality({i \in 1..Len(registry) : registry[i].key = n}) = 1
              /\ get_tool(registry, n) = LastReg(regLog, n)
              /\ LET specs == get_openai_tool_specs(registry)
                 IN Cardinality({i \in 1..Len(specs) : specs[i].name = n}) = 1
         ELSE ~DictHas(registry, n)
    /\ (op = "lookup" /\ req.name \in LogNames(regLog))
         => out = Return(LastReg(regLog, req.name))
    /\ (op = "call_tool" /\ req.name \in LogNames(regLog))
         => calls[1].function = LastReg(regLog, req.name).function

C4_Witness ==
    /\ op = "lookup"
    /\ Len(regLog) = 3
    /\ regLog[1].name = req.name
    /\ regLog[3].name = req.name
    /\ regLog[1].function # regLog[3].function
    /\ regLog[2].name # req.name
    /\ out.value.function = regLog[3].function
    /\ Len(registry) = 2

\* C5 as stated: register fails exactly when the name is empty, and then
\* adds no entry.
C5_RegisterFailsIffNameEmpty ==
    op = "register"
      => /\ (out.kind = "raise") <=> (req.name = "")
         /\ req.name = "" => ~DictHas(registry, "")

\* C5 (amended): register never fails; for every name, the empty name
\* included, it leaves an entry for that name holding the given description,
\* schema and handler, and adds or removes nothing else.
C5_RegisterAlwaysAddsEntry ==
    [][op' = "register"
         => /\ out'.kind = "return"
            /\ DictHas(registry', req'.name)
            /\ get_tool(registry', req'.name) = regLog'[Len(regLog')]
            /\ DictKeys(registry') = DictKeys(registry) \cup {req'.name}
            /\ \A n \in DictKeys(registry) \ {req'.name} :
                 get_tool(registry', n) = get_tool(registry, n)]_vars

C5_Witness ==
    /\ op = "register"
    /\ req.name = ""
    /\ out.kind = "return"
    /\ DictHas(registry, "")
    /\ Len(registry) = 2

C28_SchemaNamesBind ==
    (op = "call_tool" /\ get_tool(registry, req.name) # NoTool)
      => LET t == get_tool(registry, req.name)
         IN (/\ DOMAIN req.arguments \subseteq t.parameters
             /\ SchemaRequired(t.function) \subseteq DOMAIN req.arguments)
              => /\ calls = <<[function |-> t.function, kwargs |-> req.arguments]>>
                 /\ handlerOut.kind \in {"return", "raise"}
                 /\ handlerOut.exc.type # "TypeError"

(***************************************************************************)
(* Properties of compare_records                                           *)
(***************************************************************************)
\* a compare_records call has ended
CompareDone == op = "compare_records" /\ pc = "idle" /\ out.kind # "none"

\* the id a fetch of compare_records asked for
FetchedId(f) == SubSeq(f.request.endpoint, 2, Len(f.request.endpoint))

\* the ids whose fetch succeeded, in the order of their first success
RECURSIVE Resolved(_)
Resolved(log) ==
    IF log = <<>> THEN <<>>
    ELSE LET before == Resolved(SubSeq(log, 1, Len(log) - 1))
             last == log[Len(log)]
         IN IF last.reply.ok /\ FetchedId(last) \notin ToSet(before)
            THEN Append(before, FetchedId(last))
            ELSE before

\* C7: compare_records fails with the insufficient-records error
\* (ValueError "At least two valid records are required for comparison") and
\* returns no comparison whenever fewer than 2 of the requested record
\* documents were fetched successfully.
C7_FewerThanTwoFails ==
    (CompareDone /\ Len(Resolved(fetches)) < 2)
      => out = Raise(InsufficientRecords)

\* three ids requested, one resolved
C7_Witness ==
    /\ CompareDone
    /\ Len(req.arguments.record_ids) = 3
    /\ Len(fetches) = 3
    /\ Len(Resolved(fetches)) = 1
    /\ out.kind = "raise"

\* C8: a failed fetch does not abort compare_records: every id of the request
\* is fetched, one at a time in request order, and the comparison is over
\* exactly the ids whose fetch succeeded (one score for each pair of them),
\* which is returned as soon as two of them resolved.
C8_FailedFetchSkipped ==
    CompareDone
      => /\ [i \in 1..Len(fetches) |-> FetchedId(fetches[i])] = req.arguments.record_ids
         /\ Len(Resolved(fetches)) >= 2 => out.kind = "return"
         /\ out.kind = "return"
              => LET ids == Resolved(fetches)
                     fc == out.value.field_comparisons
                 IN \A k \in 1..Len(fc) :
                       DictKeys(fc[k].val.similarity_scores)
                         = {ids[p[1]] \o <<"_">> \o ids[p[2]] :
                               p \in {q \in (1..Len(ids)) \X (1..Len(ids)) : q[1] < q[2]}}

\* the second fetch failed, the ones before and after it succeeded and were
\* compared
C8_Witness ==
    /\ CompareDone
    /\ Len(fetches) = 3
    /\ fetches[1].reply.ok
    /\ ~fetches[2].reply.ok
    /\ fetches[3].reply.ok
    /\ out.kind = "return"
    /\ Len(out.value.field_comparisons[1].val.similarity_scores) = 1

\* the document a successful fetch of compare_records returned for an id
FetchedDoc(log, record_id) ==
    log[CHOOSE i \in 1..Len(log) :
          log[i].reply.ok /\ FetchedId(log[i]) = record_id].reply.doc

\* C13 as stated: when exactly two records were fetched, with identical
\* titles and non-empty, disjoint keyword sets, the average similarity is 1.0
\* for the field "title" and 0.0 for the fields "keywords" and "topics".
C13_IdenticalTitlesDisjointKeywords ==
    (CompareDone /\ out.kind = "return" /\ Len(Resolved(fetches)) = 2)
      => LET ids == Resolved(fetches)
             m1 == FetchedDoc(fetches, ids[1])["metadata"]
             m2 == FetchedDoc(fetches, ids[2])["metadata"]
             fc == out.value.field_comparisons
         IN (/\ m1["title"] = m2["title"]
             /\ ToSet(m1["keywords"].v) # {}
             /\ ToSet(m2["keywords"].v) # {}
             /\ ToSet(m1["keywords"].v) \cap ToSet(m2["keywords"].v) = {})
              => \A k \in 1..Len(fc) :
                   /\ fc[k].key = "title" => fc[k].val.average_similarity = Frac(1, 1)
                   /\ fc[k].key \in {"keywords", "topics"}
                        => fc[k].val.average_similarity = Frac(0, 1)

\* the index pairs (i, j), i < j, of n fetched records
IndexPairs(n) == {q \in (1..n) \X (1..n) : q[1] < q[2]}

\* C23 as stated: for each compared field and n fetched records,
\* compare_records records exactly one score for every unordered pair of
\* distinct fetched records, n(n-1)/2 scores in all, under a key that
\* identifies the pair independently of the order of its two record ids, and
\* two different pairs never share a key.
C23_OneScorePerUnorderedPair ==
    (CompareDone /\ out.kind = "return")
      => LET ids == Resolved(fetches)
             n == Len(ids)
             fc == out.value.field_comparisons
         IN \A k \in 1..Len(fc) :
              LET scores == fc[k].val.similarity_scores
              IN /\ 2 * Len(scores) = n * (n - 1)
                 /\ \A p \in IndexPairs(n) :
                      /\ DictHas(scores, pair_key(ids[p[1]], ids[p[2]]))
                      /\ pair_key(ids[p[1]], ids[p[2]]) = pair_key(ids[p[2]], ids[p[1]])
                 /\ \A p, q \in IndexPairs(n) :
                      p # q => pair_key(ids[p[1]], ids[p[2]]) # pair_key(ids[q[1]], ids[q[2]])

\* the value compare_records extracts from a fetched record for a field
FieldValueOf(record_id, field) ==
    extract_field_value(FetchedDoc(fetches, record_id), field)

\* C24: for each compared field, the differences list of compare_records
\* holds exactly the record pairs whose similarity is strictly below 0.8 (a
\* pair scoring exactly 0.8 is not listed), one entry for each such pair, and
\* the entry carries both record ids and both raw field values stringified.
C24_DifferencesBelowThreshold ==
    (CompareDone /\ out.kind = "return")
      => LET ids == Resolved(fetches)
             fc == out.value.field_comparisons
         IN \A k \in 1..Len(fc) :
              LET field == fc[k].key
                  scores == fc[k].val.similarity_scores
                  listed == DictGet(out.value.differences, field, <<>>)
                  Score(p) == DictGet(scores, pair_key(ids[p[1]], ids[p[2]]), Frac(1, 1))
                  below == {p \in IndexPairs(Len(ids)) :
                              Score(p).n * 10 < 8 * Score(p).d}
                  EntryOf(p) == [record_id1 |-> ids[p[1]],
                                 record_id2 |-> ids[p[2]],
                                 value1 |-> str(FieldValueOf(ids[p[1]], field)),
                                 value2 |-> str(FieldValueOf(ids[p[2]], field))]
              IN /\ Len(listed) = Cardinality(below)
                 /\ ToSet(listed) = {EntryOf(p) : p \in below}

\* three records were compared by title and by keywords: a pair of titles
\* scores exactly 0.8 and is not listed, a pair of keyword lists scores less
\* and is listed
C24_Witness ==
    /\ CompareDone
    /\ out.kind = "return"
    /\ Len(Resolved(fetches)) = 3
    /\ LET fc == out.value.field_comparisons
       IN /\ \E k \in 1..Len(fc) :
               /\ fc[k].key = "title"
               /\ \E i \in 1..Len(fc[k].val.similarity_scores) :
                    fc[k].val.similarity_scores[i].val = Frac(4, 5)
               /\ DictGet(out.value.differences, "title", <<>>) = <<>>
          /\ Len(DictGet(out.value.differences, "keywords", <<>>)) >= 2

\* the sum of a list of scores, as numerator and denominator
RECURSIVE Total(_)
Total(l) ==
    IF l = <<>> THEN [n |-> 0, d |-> 1]
    ELSE LET rest == Total(Tail(l))
         IN [n |-> l[1].n * rest.d + rest.n * l[1].d, d |-> l[1].d * rest.d]

\* x is the arithmetic mean of the scores of l (0.0 for no score)
IsMeanOf(x, l) ==
    IF l = <<>> THEN x.n = 0
    ELSE x.n * Total(l).d * Len(l) = Total(l).n * x.d

\* C25: in the result of compare_records, each field's average_similarity is
\* the arithmetic mean of that field's pairwise scores (0.0 when the field has
\* no pairwise scores), and overall_similarity is the arithmetic mean of the
\* per-field averages over all requested fields.
C25_AveragesAreMeans ==
    (CompareDone /\ out.kind = "return")
      => LET fc == out.value.field_comparisons
             requested == IF req.arguments.compare_fields # <<>>
                          THEN req.arguments.compare_fields
                          ELSE DefaultCompareFields
         IN /\ [k \in 1..Len(fc) |-> fc[k].key] = requested
            /\ \A k \in 1..Len(fc) :
                 IsMeanOf(fc[k].val.average_similarity,
                          DictValues(fc[k].val.similarity_scores))
            /\ IsMeanOf(out.value.overall_similarity,
                        [k \in 1..Len(fc) |-> fc[k].val.average_similarity])

\* three records were compared by two fields whose averages differ, and
\* neither average is one of the field's scores
C25_Witness ==
    /\ CompareDone
    /\ out.kind = "return"
    /\ Len(Resolved(fetches)) = 3
    /\ LET fc == out.value.field_comparisons
       IN /\ Len(fc) = 2
          /\ fc[1].val.average_similarity # fc[2].val.average_similarity
          /\ \A k \in 1..2 :
               fc[k].val.average_similarity
                 \notin ToSet(DictValues(fc[k].val.similarity_scores))
          /\ out.value.overall_similarity # fc[1].val.average_similarity

(***************************************************************************)
(* Properties of get_related_records                                       *)
(***************************************************************************)
\* a get_related_records call has ended
RelatedDone == op = "get_related_records" /\ pc = "idle"

\* the hits the upstream returned to the call, in order of arrival
RECURSIVE HitsOf(_)
HitsOf(log) ==
    IF log = <<>> THEN <<>>
    ELSE HitsOf(SubSeq(log, 1, Len(log) - 1))
           \o Get(Get(log[Len(log)].reply.doc, "hits", EmptyDict), "hits", <<>>)

\* C9 as stated: a failing upstream search is skipped; the remaining search
\* terms are still queried and the call returns the candidates of the
\* successful queries.
C9_FailedSearchSkipped ==
    (/\ RelatedDone
     /\ Len(fetches) >= 2
     /\ fetches[1].reply.ok
     /\ \E i \in 2..Len(fetches) : ~fetches[i].reply.ok)
      => /\ out.kind = "return"
         /\ Len(fetches) = 1 + Len(_extract_search_terms(fetches[1].reply.doc))

\* C10: the similarity threshold is inclusive.  Every returned entry scores
\* at least the threshold; a hit other than the target that scores exactly
\* the threshold is returned unless max_results entries scoring at least as
\* much took the places; a hit scoring below the threshold is not returned.
C10_ThresholdInclusive ==
    (RelatedDone /\ out.kind = "return")
      => LET a == req.arguments
             record == fetches[1].reply.doc
             hits == ToSet(HitsOf(fetches))
             returned == out.value.related_records
         IN /\ \A k \in 1..Len(returned) :
                 FGe(returned[k].similarity, a.similarity_threshold)
            /\ \A hit \in hits :
                 LET score == _calculate_similarity(record, hit)
                 IN /\ (score = a.similarity_threshold /\ hit["id"] # a.record_id)
                         => \/ \E k \in 1..Len(returned) :
                                 /\ returned[k].record_id = hit["id"]
                                 /\ returned[k].similarity = score
                            \/ Len(returned) = a.max_results
                    /\ FLt(score, a.similarity_threshold)
                         => \A k \in 1..Len(returned) :
                              returned[k].record_id # hit["id"]

\* a call that returned a hit scoring exactly the threshold and left out one
\* scoring below it
C10_Witness ==
    /\ RelatedDone
    /\ out.kind = "return"
    /\ req.arguments.similarity_threshold = DefaultThreshold
    /\ \E k \in 1..Len(out.value.related_records) :
         /\ out.value.related_records[k].similarity = DefaultThreshold
         /\ out.value.related_records[k].record_id = IntId("4")
    /\ \E h \in 1..Len(HitsOf(fetches)) :
         /\ HitsOf(fetches)[h]["id"] = IntId("3")
         /\ FLt(_calculate_similarity(fetches[1].reply.doc, HitsOf(fetches)[h]),
                DefaultThreshold)

\* the entries the search loop collected during the call, in order of arrival
RelatedCollected ==
    RelatedHits(fetches[1].reply.doc, req.arguments.record_id, HitsOf(fetches),
                req.arguments.similarity_threshold)

\* how often the entry e occurs in the list l
Occurrences(l, e) == Cardinality({i \in 1..Len(l) : l[i] = e})

\* C11: the returned list is ordered by similarity, non-increasing; it has at
\* most max_results entries, each of them a collected candidate; no collected
\* candidate that was left out scores strictly higher than a returned one;
\* total_count is the length of the returned list.
C11_SortedTopK ==
    (RelatedDone /\ out.kind = "return")
      => LET returned == out.value.related_records
             collected == RelatedCollected
             max_results == req.arguments.max_results
         IN /\ \A k \in 1..(Len(returned) - 1) :
                 FGe(returned[k].similarity, returned[k + 1].similarity)
            /\ Len(returned) <= max_results
            /\ Len(returned) = IF Len(collected) < max_results
                               THEN Len(collected) ELSE max_results
            /\ \A k \in 1..Len(returned) :
                 Occurrences(returned, returned[k]) <= Occurrences(collected, returned[k])
            /\ \A c \in 1..Len(collected), k \in 1..Len(returned) :
                 FLt(returned[k].similarity, collected[c].similarity)
                   => Occurrences(returned, collected[c])
                        = Occurrences(collected, collected[c])
            /\ out.value.total_count = Len(returned)

\* a call that collected more candidates than max_results, in an order other
\* than by score, and returned two of them with different scores
C11_Witness ==
    /\ RelatedDone
    /\ out.kind = "return"
    /\ req.arguments.max_results = 2
    /\ Len(RelatedCollected) > 2
    /\ FLt(RelatedCollected[1].similarity, RelatedCollected[2].similarity)
    /\ Len(out.value.related_records) = 2
    /\ FLt(out.value.related_records[2].similarity,
           out.value.related_records[1].similarity)
    /\ out.value.total_count = 2

\* C12 as stated: the target record never appears in the output, whichever
\* representation (JSON string or JSON number) the upstream gives its id: no
\* returned entry has an id that denotes the requested record_id.
C12_TargetExcluded ==
    (RelatedDone /\ out.kind = "return")
      => \A k \in 1..Len(out.value.related_records) :
           out.value.related_records[k].record_id.digits
             # req.arguments.record_id.digits

\* Jaccard index of two sets as numerator and denominator; 0 when one of
\* them is empty
Jaccard(A, B) ==
    IF A = {} \/ B = {} THEN [n |-> 0, d |-> 1]
    ELSE [n |-> Cardinality(A \cap B), d |-> Cardinality(A \cup B)]

\* lowercased whitespace tokens of a record's title, its lowercased keywords,
\* its lowercased creator names
TitleWords(doc) ==
    ToSet(split(lower(Get(Get(doc, "metadata", EmptyDict), "title", <<>>))))
KeywordSet(doc) ==
    {lower(k) : k \in ToSet(Get(Get(doc, "metadata", EmptyDict), "keywords", <<>>))}
CreatorNames(doc) ==
    {lower(Get(c, "name", <<>>)) :
        c \in ToSet(Get(Get(doc, "metadata", EmptyDict), "creators", <<>>))}

\* C26: the composite similarity that get_related_records assigns to a
\* candidate is 0.4 * title_similarity + 0.3 * keyword_set_similarity
\* + 0.3 * creator_set_similarity, the first being the Jaccard similarity of
\* the lowercased whitespace-token sets of the two titles, the other two the
\* Jaccard similarities of the lowercased keyword sets and creator-name sets
C26_CompositeWeights ==
    (RelatedDone /\ out.kind = "return")
      => LET target == fetches[1].reply.doc
             returned == out.value.related_records
         IN \A k \in 1..Len(returned) :
              LET candidate == Candidates[CHOOSE c \in 1..Len(Candidates) :
                                            Candidates[c]["id"] = returned[k].record_id]
                  t == Jaccard(TitleWords(target), TitleWords(candidate))
                  w == Jaccard(KeywordSet(target), KeywordSet(candidate))
                  c == Jaccard(CreatorNames(target), CreatorNames(candidate))
                  s == returned[k].similarity
              IN s.n * (10 * t.d * w.d * c.d)
                   = s.d * (4 * t.n * w.d * c.d + 3 * w.n * t.d * c.d
                              + 3 * c.n * t.d * w.d)

\* the call returned two candidates: one shares only the title with the
\* target and scores 0.4, the other shares only a keyword and scores 0.3
C26_Witness ==
    /\ RelatedDone
    /\ out.kind = "return"
    /\ Len(out.value.related_records) = 2
    /\ out.value.related_records[1].similarity = Frac(4, 10)
    /\ out.value.related_records[2].similarity = Frac(3, 10)

\* C27 as stated: each candidate record appears at most once in the
\* related_records list that get_related_records returns, even when the
\* upstream searches for several of the target's search terms return it.
C27_NoDuplicateCandidates ==
    (RelatedDone /\ out.kind = "return")
      => LET returned == out.value.related_records
         IN \A i, j \in 1..Len(returned) :
              i # j => returned[i].record_id # returned[j].record_id

(***************************************************************************)
(* Properties of the similarity helpers and the field accessors            *)
(***************************************************************************)
\* the helper applied last and what it was given
Helper == op
ArgA == req.arguments.a
ArgB == req.arguments.b

\* the helpers that compare two strings
EditSimilarity == "compare_tool._calculate_string_similarity"
WordSimilarity == "_calculate_string_similarity"

\* C14 as stated: a non-empty string compared with itself scores 1.0 under
\* the edit-distance metric and under the word-level Jaccard metric alike, and
\* a non-empty set compared with itself scores 1.0.
C14_SelfSimilarityIsOne ==
    /\ (Helper \in {EditSimilarity, WordSimilarity} /\ ArgA = ArgB /\ ArgA.v # <<>>)
         => out.value = Frac(1, 1)
    /\ (Helper = "_calculate_set_similarity" /\ ToSet(ArgA.v) = ToSet(ArgB.v)
          /\ ToSet(ArgA.v) # {})
         => out.value = Frac(1, 1)

\* C14 amended: a non-empty string compared with itself scores 1.0 under the
\* edit-distance metric; under the word-level Jaccard metric it scores 1.0
\* when it holds at least one word and 0.0 when it is made of blanks only; a
\* non-empty set compared with itself scores 1.0.
C14_SelfSimilarityOfWords ==
    /\ (Helper = EditSimilarity /\ ArgA = ArgB /\ ArgA.v # <<>>)
         => out.value = Frac(1, 1)
    /\ (Helper = WordSimilarity /\ ArgA = ArgB /\ ArgA.v # <<>>)
         => out.value = IF split(ArgA.v) # <<>> THEN Frac(1, 1) ELSE Frac(0, 1)
    /\ (Helper = "_calculate_set_similarity" /\ ToSet(ArgA.v) = ToSet(ArgB.v)
          /\ ToSet(ArgA.v) # {})
         => out.value = Frac(1, 1)

\* a string of two words was compared with itself under the Jaccard metric
C14_Witness ==
    /\ Helper = WordSimilarity
    /\ ArgA = PyStr(<<"a", " ", "B">>)
    /\ ArgB = ArgA
    /\ out.value = Frac(1, 1)

ValueSimilarities ==
    {EditSimilarity, WordSimilarity, "_calculate_set_similarity",
     "_calculate_list_similarity", "compare_tool._calculate_similarity",
     "calculate_similarity"}

\* C16 as stated: every score of any metric (the pairwise field scores of the
\* compare tool and the composite score of the related-records tool included)
\* lies in [0, 1], and a metric returns 0.0 whenever at least one of the two
\* compared values is empty.
C16_InUnitIntervalZeroOnEmpty ==
    /\ Helper \in ValueSimilarities \cup {"_calculate_similarity"}
         => FGe(out.value, Frac(0, 1)) /\ FGe(Frac(1, 1), out.value)
    /\ (Helper \in ValueSimilarities /\ (ArgA.v = <<>> \/ ArgB.v = <<>>))
         => out.value = Frac(0, 1)

\* the Levenshtein distance by its classic definition: the least number of
\* single-character insertions, deletions and substitutions that turn a into b
RECURSIVE EditDistance(_, _)
EditDistance(a, b) ==
    IF a = <<>> THEN Len(b)
    ELSE IF b = <<>> THEN Len(a)
    ELSE IF Head(a) = Head(b) THEN EditDistance(Tail(a), Tail(b))
    ELSE LET ways == {EditDistance(Tail(a), b),
                      EditDistance(a, Tail(b)),
                      EditDistance(Tail(a), Tail(b))}
         IN 1 + (CHOOSE d \in ways : \A e \in ways : d <= e)

\* C17: _levenshtein_distance(s1, s2), with its single rolling row and its
\* swap of the arguments, returns, and what it returns is the classic
\* Levenshtein distance of the two strings.
C17_LevenshteinIsClassic ==
    Helper = "_levenshtein_distance"
      => /\ out.kind = "return"
         /\ out.value = EditDistance(ArgA.v, ArgB.v)

\* the distance of "kitten" and "sitting", the shorter string given first, is 3
C17_Witness ==
    /\ Helper = "_levenshtein_distance"
    /\ ArgA = PyStr(Kitten)
    /\ ArgB = PyStr(Sitting)
    /\ out = Return(3)

\* the field names that denote a list of strings
ListFields == {"authors", "creators", "topics", "keywords"}

\* C20 as stated: the accessors are field-name-stable.  For the field names
\* authors, creators, topics and keywords they yield a list (the empty list
\* when the record lacks the field); for title, publication_date,
\* description, license and every other field name they yield a string (the
\* empty string when the record lacks the field).
C20_FieldNameStable ==
    Helper \in {"_extract_field_value", "extract_field_value"}
      => LET record == ArgA
             field == ArgB
             absent == IF Helper = "_extract_field_value"
                       THEN field \notin DOMAIN Get(record, "metadata", EmptyDict)
                       ELSE field \notin DOMAIN record
         IN IF field \in ListFields
            THEN /\ out.value.type = "list"
                 /\ (absent /\ field \in {"creators", "keywords"})
                      => out.value = PyList(<<>>)
            ELSE /\ out.value.type = "str"
                 /\ absent => out.value = PyStr(<<>>)

(***************************************************************************)
(* Properties of get_citation                                              *)
(***************************************************************************)
\* a get_citation call has ended
CitationDone ==
    /\ op \in {"citation_tool.get_citation", "server.get_citation"}
    /\ pc = "idle"

\* C18 as stated: a citation request whose format is neither bibtex nor apa
\* fails: the call ends with an error that reaches the caller, never with a
\* response object, and when the record was fetched the error is the
\* unsupported-format error.
C18_UnsupportedFormatSurfaces ==
    (CitationDone /\ lower(req.arguments.format) \notin {Bibtex, Apa})
      => /\ out.kind = "raise"
         /\ fetches[1].reply.ok => out.exc = UnsupportedFormat(req.arguments.format)

(***************************************************************************)
(* Properties of download_file                                             *)
(***************************************************************************)
\* C19 as stated: a download_file call that finds the file
\* {record_id}_{file_name} in the on-disk cache answers from the cache, with
\* no upstream request, when the force flag is not set; when the force flag
\* is set it goes to the upstream and downloads the file again.
C19_CacheUnlessForced ==
    [][(pc = "idle" /\ op' = "download_file")
         => LET a == req'.arguments
                path == cache_path(a.record_id, a.file_name)
            IN DictHas(cache_dir, path)
                 => IF a.force_download
                    THEN pc' = "download_record" /\ out' = NoOutcome
                    ELSE /\ pc' = "idle"
                         /\ fetches' = <<>>
                         /\ out' = Return(CachedFile(cache_dir, a.record_id, a.file_name))]_vars

\* C22 as stated: the similarity that compare_records applies to a pair of
\* field values (calculate_similarity) is the generic similarity: the list
\* similarity when both values are lists, otherwise the edit-distance string
\* similarity 1 - distance / max(len) of the two stringified, case-folded
\* values.
C22_CompareAppliesGenericSimilarity ==
    Helper = "calculate_similarity" =>
        out.value = IF ArgA.type = "list" /\ ArgB.type = "list"
                    THEN _calculate_list_similarity(ArgA.v, ArgB.v)
                    ELSE compare_tool_calculate_string_similarity(str(ArgA), str(ArgB))

(***************************************************************************)
(* Properties of the TTL cache                                             *)
(***************************************************************************)
\* the age in ticks at which an entry stops being served
TtlTicks == _api_cache_ttl * TicksPerSecond

\* the entries stored under a key whose timestamp is less than the TTL old
FreshEntries(cache, cache_key, now) ==
    {i \in 1..Len(cache) : /\ cache[i].key = cache_key
                           /\ now - cache[i].val.timestamp < TtlTicks}

\* C21: a call through the TTL cache returns the stored value without
\* invoking the underlying tool if and only if an entry exists for its key
\* (function name plus stringified arguments) whose timestamp is less than
\* the TTL old; otherwise the tool is invoked and, when it returns, (current
\* time, result) is stored under the key; so no value stored the TTL or
\* longer ago is ever served
C21_Step ==
    /\ op' = "_cache_api_response" =>
         LET fresh == FreshEntries(_api_cache, frame'.cache_key, clock)
         IN IF fresh # {}
            THEN /\ \E i \in fresh : out' = Return(_api_cache[i].val.result)
                 /\ inflight' = inflight
                 /\ _api_cache' = _api_cache
            ELSE /\ out'.kind = "none"
                 /\ Len(inflight') = Len(inflight) + 1
                 /\ inflight'[Len(inflight')].call = req'.arguments
                 /\ _api_cache' = _api_cache
    /\ (op' = "get_citation" /\ handlerOut'.kind = "return") =>
         /\ DictGet(_api_cache', frame'.cache_key, NoEntry)
              = CacheEntry(clock, handlerOut'.value)
         /\ out' = handlerOut'
JustRaised == handlerOut.kind = "raise"

\* what a failure of the underlying tool leaves behind, whatever the next
\* call does: the cache is as it was, the caller gets the error response and
\* no entry of the cache holds a failure
FailureNotStored ==
    /\ (op' = "get_citation" /\ handlerOut'.kind = "raise") =>
         /\ _api_cache' = _api_cache
         /\ out'.kind = "return"
         /\ out'.value.error # NoError
    /\ \A i \in 1..Len(_api_cache') : _api_cache'[i].val.result.error = NoError
    /\ (op' = "_cache_api_response" /\ out'.kind = "return") =>
         out'.value.error = NoError

\* C29 (as stated): when the underlying tool call raises, the TTL cache is
\* left unchanged, the failure is not served to later callers from the cache,
\* and the next call with the same key invokes the underlying tool again
C29_StepAsStated ==
    /\ FailureNotStored
    /\ (JustRaised /\ op' = "_cache_api_response"
          /\ frame'.cache_key = frame.cache_key) =>
         /\ out'.kind = "none"
         /\ Len(inflight') = Len(inflight) + 1
C29_StepAmended ==
    /\ FailureNotStored
    /\ (JustRaised /\ op' = "_cache_api_response"
          /\ frame'.cache_key = frame.cache_key) =>
         \/ /\ out'.kind = "none"
            /\ Len(inflight') = Len(inflight) + 1
         \/ /\ DictGet(_api_cache, frame.cache_key, NoEntry).timestamp
                 >= frame.started
            /\ out' = Return(DictGet(_api_cache, frame.cache_key, NoEntry).result)
DataTypeDone == op = "detect_data_type" /\ pc = "idle" /\ out.kind # "none"

\* the lowercased keywords and the lowercased extensions of the files whose
\* name has a dot, of the document the call fetched
FetchedKeywords ==
    LET keywords == Get(Get(fetches[1].reply.doc, "metadata", EmptyDict), "keywords", <<>>)
    IN {lower(keywords[i]) : i \in 1..Len(keywords)}
FetchedExtensions == ToSet(FileExtensions(Get(fetches[1].reply.doc, "files", <<>>)))

\* the indicators of all types of a chain
AllIndicators(chain) == UNION {ToSet(chain[k].indicators) : k \in 1..Len(chain)}

\* C30 as stated: detect_data_type completes with a result for every
\* successfully fetched record document, a record that has both a
\* type-indicating keyword and a files list included; the confidence is 0.8
\* when a keyword decided the type, 0.6 when a file extension decided it (no
\* keyword having matched), and the type is "unknown" with confidence 0.0
\* otherwise.
C30_CompletesWithConfidence ==
    (DataTypeDone /\ fetches[1].reply.ok)
      => /\ out.kind = "return"
         /\ LET by_keyword == FetchedKeywords \cap AllIndicators(KeywordIndicators) # {}
                by_extension ==
                   FetchedExtensions \cap AllIndicators(ExtensionIndicators) # {}
            IN IF by_keyword
               THEN /\ out.value.confidence = Frac(8, 10)
                    /\ out.value.data_type # "unknown"
               ELSE IF by_extension
               THEN /\ out.value.confidence = Frac(6, 10)
                    /\ out.value.data_type # "unknown"
               ELSE /\ out.value.confidence = Frac(0, 1)
                    /\ out.value.data_type = "unknown"

====
